---------------------------- MODULE Spec2Model ----------------------------
(***************************************************************************)
(* A model of the fta indicator library (package fta): the PSAR scan, the  *)
(* RSI / CRSI / BBANDS / PercentB / WMA compositions and the series        *)
(* operations they call.                                                   *)
(*                                                                         *)
(* DType values are modelled as exact rationals <<n, d>> (d > 0, lowest    *)
(* terms) extended with the IEEE specials NaN = <<0,0>>, +Inf = <<1,0>>    *)
(* and -Inf = <<-1,0>>.  Rounding of finite results and the sign of zero   *)
(* are not modelled; the square root alone is inexact, truncated to a      *)
(* multiple of 1/SqrtScale where its argument is not the square of a       *)
(* rational.  The series library (Rolling, EWM, Diff, Shift, the           *)
(* elementwise arithmetic) is modelled from its contract.                  *)
(***************************************************************************)
EXTENDS Integers, Sequences, FiniteSets, TLC

VARIABLES
    op,         \* which function the caller invokes: "PSAR", "RSI", ...
    pc,         \* position inside the call: "call", "loop", "done", "panic"
    ret,        \* what the call returned (<<>> until it returns)
    i,          \* loop index (Go, 0-based)
    high,       \* input series (values)
    low,
    close,
    iaf,        \* PSAR initial acceleration step
    maxaf,      \* PSAR acceleration cap
    bull,       \* PSAR run state
    af,
    hp,
    lp,
    reverse,    \* PSAR loop local of the last bar processed
    psar,       \* PSAR working buffers
    psarBull,
    psarBear,
    proj,       \* history: the step-1 projection of each bar
    bullAt,     \* history: the trend in force after each bar
    reverseAt,  \* history: whether each bar reversed
    column,     \* input series of SMA, WMA, RSI, BBANDS, PercentB
    ma,         \* BBANDS / PercentB: the moving average supplied
    period,
    periodUpDown,
    periodRoc,
    adjust,
    stdMultiplier,
    streak,     \* CRSI: the closure's counter
    updown,     \* CRSI: the streak series being built
    weights,    \* WMA: the closure's weights (a Go slice: array and length)
    wma,        \* WMA: the output being built
    index,      \* OHLCV frame: the timestamps its columns share
    freq,       \* OHLCV frame: the spacing of its timestamps
    open,       \* OHLCV frame: the columns besides high, low and close
    volume,
    interval,   \* Resample: the length of one sample
    heap,       \* the series buffers: who allocated each, whether written
    regs,       \* the buffer each variable of the running call refers to
    procs       \* two calls running concurrently, each with its own locals

ctl == <<op, pc, ret, i>>

psarIn == <<high, low, close, iaf, maxaf>>

psarLoc == <<bull, af, hp, lp, reverse, psar, psarBull, psarBear,
             proj, bullAt, reverseAt>>

indIn == <<column, ma, period, periodUpDown, periodRoc, adjust, stdMultiplier>>

crsiLoc == <<streak, updown>>

wmaLoc == <<weights, wma>>

frameIn == <<index, freq, open, volume, interval>>

memLoc == <<heap, regs>>

rest == <<frameIn, memLoc, procs>>

vars == <<ctl, psarIn, psarLoc, indIn, crsiLoc, wmaLoc, rest>>

-----------------------------------------------------------------------------
(* Bounds of the model.                                                    *)

MaxLen == 4

MaxPrice == 1

MaxVal == 3

MaxPeriod == 2

ConstLen == 30
\* The longest series, the largest price, the largest value of the supplied
\* average and the largest multiplier of the band calls.
BandLen == 3
BandVal == 2
MaVal == 1
MaxMult == 1
\* The resolution of the square root.
SqrtScale == 100
\* The longest frame and the largest spacing of the resampled frames.
FrameLen == 2
MaxFreq == 2
\* The longest period of the WMA calls.
WmaPeriod == 3
\* The length of the series of two concurrent calls.
ConcLen == 3

-----------------------------------------------------------------------------
(* DType arithmetic.                                                       *)

NaN == <<0, 0>>

PInf == <<1, 0>>

NInf == <<-1, 0>>

AbsInt(n) == IF n < 0 THEN -n ELSE n

RECURSIVE Gcd(_, _)
Gcd(a, b) == IF b = 0 THEN a ELSE Gcd(b, a % b)

\* n/d in lowest terms with a positive denominator (d # 0).
Norm(n, d) ==
    LET g == Gcd(AbsInt(n), AbsInt(d))
        s == IF d < 0 THEN -1 ELSE 1
    IN  <<(s * n) \div g, (s * d) \div g>>

F(n) == <<n, 1>>

R(n, d) == Norm(n, d)

IsNaN(x) == x = NaN

IsInf(x) == x[2] = 0 /\ x[1] # 0

IsFinite(x) == x[2] > 0

SignOf(x) == IF x[1] > 0 THEN 1 ELSE IF x[1] < 0 THEN -1 ELSE 0

FNeg(x) == <<-x[1], x[2]>>

FAdd(a, b) ==
    IF IsNaN(a) \/ IsNaN(b) THEN NaN
    ELSE IF IsInf(a) /\ IsInf(b) THEN (IF a = b THEN a ELSE NaN)
    ELSE IF IsInf(a) THEN a
    ELSE IF IsInf(b) THEN b
    ELSE Norm(a[1] * b[2] + b[1] * a[2], a[2] * b[2])

FSub(a, b) == FAdd(a, FNeg(b))

FMul(a, b) ==
    IF IsNaN(a) \/ IsNaN(b) THEN NaN
    ELSE IF IsInf(a) \/ IsInf(b)
         THEN (IF SignOf(a) * SignOf(b) = 0 THEN NaN
               ELSE <<SignOf(a) * SignOf(b), 0>>)
    ELSE Norm(a[1] * b[1], a[2] * b[2])

FDiv(a, b) ==
    IF IsNaN(a) \/ IsNaN(b) THEN NaN
    ELSE IF IsInf(a)
         THEN (IF IsInf(b) THEN NaN
               ELSE <<SignOf(a) * (IF SignOf(b) < 0 THEN -1 ELSE 1), 0>>)
    ELSE IF IsInf(b) THEN F(0)
    ELSE IF b[1] = 0 THEN (IF a[1] = 0 THEN NaN ELSE <<SignOf(a), 0>>)
    ELSE Norm(a[1] * b[2], a[2] * b[1])

\* Go's < and > on floats: false whenever an operand is NaN.
FLt(a, b) ==
    /\ ~IsNaN(a)
    /\ ~IsNaN(b)
    /\ IF IsInf(a) /\ IsInf(b) THEN a[1] < b[1]
       ELSE a[1] * b[2] < b[1] * a[2]

FGt(a, b) == FLt(b, a)

FLe(a, b) == ~IsNaN(a) /\ ~IsNaN(b) /\ ~FLt(b, a)

FMin(a, b) == IF IsNaN(a) \/ IsNaN(b) THEN NaN ELSE IF FLt(b, a) THEN b ELSE a

-----------------------------------------------------------------------------
(* Series values: Go slices, indexed from 0.                               *)

At(s, k) == s[k + 1]

Zeros(n) == [k \in 1..n |-> F(0)]

Put(s, k, v) == [s EXCEPT ![k + 1] = v]

-----------------------------------------------------------------------------
(* PSAR: the parabolic stop-and-reverse scan.                              *)

\* A projection that steps away from the extreme of the run.
ProjectedAway(b, a, h, l, prev) ==
    IF b THEN FSub(prev, FMul(a, FSub(h, prev)))
    ELSE FSub(prev, FMul(a, FSub(l, prev)))

\* Step 1: the candidate SAR projected from the previous bar.
Projected(b, a, h, l, prev) ==
    IF b THEN FAdd(prev, FMul(a, FSub(h, prev)))
    ELSE FAdd(prev, FMul(a, FSub(l, prev)))

\* A reversal test that reads the bar's high in a bull run.
ReversesOnHigh(b, lo, hi, p) == IF b THEN FLt(hi, p) ELSE FGt(hi, p)

\* A reversal test that also fires when the bar touches the projected SAR.
ReversesOnTouch(b, lo, hi, p) == IF b THEN FLe(lo, p) ELSE FLe(p, hi)

\* Step 2: the reversal test on the projected SAR.
Reverses(b, lo, hi, p) == IF b THEN FLt(lo, p) ELSE FGt(hi, p)

\* A reversal that restarts from the extreme of the run that begins.
ReversalSarOfNewRun(b, h, l) == IF b THEN l ELSE h

\* Step 2: the SAR of a reversal bar is the extreme of the run that ends
\* (b is the trend before the bar).
ReversalSar(b, h, l) == IF b THEN h ELSE l

\* A test that finds new extremes in bull runs only.
NewExtremeBullOnly(b, hi, lo, h, l) == b /\ FGt(hi, h)

\* Step 3: whether the bar sets a new extreme of the run it continues.
NewExtreme(b, hi, lo, h, l) == IF b THEN FGt(hi, h) ELSE FLt(lo, l)

\* An acceleration factor that grows without a cap.
NextAfUncapped(a, step, cap) == FAdd(a, step)

\* Step 3: the acceleration factor after a new extreme.
NextAf(a, step, cap) == FMin(FAdd(a, step), cap)

\* An acceleration factor that falls to zero on a reversal.
AfAfterResetZero(rev, newX, a, step, cap) ==
    IF rev THEN F(0) ELSE IF newX THEN NextAf(a, step, cap) ELSE a

\* Steps 2 and 3: the acceleration factor after a bar.  A reversal resets it
\* to the initial factor, a new extreme steps it, and otherwise it stays.
AfAfter(rev, newX, a, step, cap) ==
    IF rev THEN step ELSE IF newX THEN NextAf(a, step, cap) ELSE a

\* A bull clamp that forgets the low two bars back.
ClampBullOneLow(p, l1, l2) == IF FLt(l1, p) THEN l1 ELSE p

\* Step 3: the SAR of a bull bar is lowered to the two previous lows.
ClampBull(p, l1, l2) ==
    LET q == IF FLt(l1, p) THEN l1 ELSE p
    IN  IF FLt(l2, q) THEN l2 ELSE q

\* A bear clamp that forgets the high two bars back.
ClampBearOneHigh(p, h1, h2) == IF FGt(h1, p) THEN h1 ELSE p

\* Step 3: the SAR of a bear bar is raised to the two previous highs.
ClampBear(p, h1, h2) ==
    LET q == IF FGt(h1, p) THEN h1 ELSE p
    IN  IF FGt(h2, q) THEN h2 ELSE q

\* An emission that writes the bull side whatever the trend is.
EmitBullAlways(b, p) == p

\* Step 4: the value written to each output side (the other side keeps the
\* zero it was allocated with).
EmitBull(b, p) == IF b THEN p ELSE F(0)

\* An emission that writes the bear side whatever the trend is.
EmitBearAlways(b, p) == p

EmitBear(b, p) == IF b THEN F(0) ELSE p

\* The statements before the loop.  highValues[0] is read whatever the
\* length is: on an empty series the index is out of range and Go panics.
PSARCall ==
    /\ op = "PSAR"
    /\ pc = "call"
    /\ IF Len(high) = 0
       THEN /\ pc' = "panic"
            /\ UNCHANGED <<i, bull, af, hp, lp, psar, psarBull, psarBear,
                           proj, bullAt, reverseAt>>
       ELSE /\ pc' = "loop"
            /\ psar' = close
            /\ psarBull' = Zeros(Len(close))
            /\ psarBear' = Zeros(Len(close))
            /\ bull' = TRUE
            /\ af' = iaf
            /\ hp' = At(high, 0)
            /\ lp' = At(low, 0)
            /\ i' = 2
            /\ proj' = close
            /\ bullAt' = [k \in 1..Len(close) |-> TRUE]
            /\ reverseAt' = [k \in 1..Len(close) |-> FALSE]
    /\ UNCHANGED <<op, ret, psarIn, reverse, indIn, rest, crsiLoc, wmaLoc>>

\* One iteration of the loop: bar i.
PSARBar ==
    /\ op = "PSAR"
    /\ pc = "loop"
    /\ i < Len(close)
    /\ LET cand == Projected(bull, af, hp, lp, At(psar, i - 1))
           rev  == Reverses(bull, At(low, i), At(high, i), cand)
           b2   == IF rev THEN ~bull ELSE bull
           newX == NewExtreme(b2, At(high, i), At(low, i), hp, lp)
           p2   == IF rev THEN ReversalSar(bull, hp, lp)
                   ELSE IF b2
                        THEN ClampBull(cand, At(low, i - 1), At(low, i - 2))
                        ELSE ClampBear(cand, At(high, i - 1), At(high, i - 2))
       IN  /\ reverse' = rev
           /\ bull' = b2
           /\ af' = AfAfter(rev, newX, af, iaf, maxaf)
           /\ hp' = IF rev /\ b2 THEN At(high, i)
                    ELSE IF ~rev /\ b2 /\ newX THEN At(high, i) ELSE hp
           /\ lp' = IF rev /\ ~b2 THEN At(low, i)
                    ELSE IF ~rev /\ ~b2 /\ newX THEN At(low, i) ELSE lp
           /\ psar' = Put(psar, i, p2)
           /\ psarBull' = Put(psarBull, i, EmitBull(b2, p2))
           /\ psarBear' = Put(psarBear, i, EmitBear(b2, p2))
           /\ proj' = Put(proj, i, cand)
           /\ bullAt' = Put(bullAt, i, b2)
           /\ reverseAt' = Put(reverseAt, i, rev)
    /\ i' = i + 1
    /\ UNCHANGED <<op, pc, ret, psarIn, indIn, rest, crsiLoc, wmaLoc>>

\* The loop ends and the three series are built and returned.
PSARReturn ==
    /\ op = "PSAR"
    /\ pc = "loop"
    /\ ~(i < Len(close))
    /\ pc' = "done"
    /\ ret' = [psar |-> psar, bull |-> psarBull, bear |-> psarBear,
               index |-> index]
    /\ UNCHANGED <<op, i, psarIn, psarLoc, indIn, rest, crsiLoc, wmaLoc>>

\* A bar <<high, low, close>> of the bounded input domain: an OHLCV bar,
\* low <= close <= high, with prices in 0..MaxPrice.
Bars ==
    {b \in (0..MaxPrice) \X (0..MaxPrice) \X (0..MaxPrice) :
        b[2] <= b[3] /\ b[3] <= b[1]}

\* The bars drawn from index 2 on.  The scan never reads close[k] for
\* k >= 2 (psar[k] is assigned before it is read), so these bars close at
\* their low.
TailBars == {b \in Bars : b[3] = b[2]}

\* The (iaf, maxaf) pairs the bounded inputs are run with.
Steps == {<<R(1, 2), R(3, 4)>>}

\* A market that falls by one at every bar from bar 2 on: the scan reverses
\* to Bear at bar 2 and every later bar sets a new low.
FallingHigh == <<F(4), F(4), F(3), F(2), F(1)>>

FallingLow == <<F(3), F(3), F(2), F(1), F(0)>>

\* The scenario that section 8 of the specification gives for PSAR.
ScenarioHigh == <<F(10), F(12), F(11), F(13), F(9)>>

ScenarioLow == <<F(8), F(9), F(8), F(10), F(7)>>

ScenarioClose == <<F(9), F(11), F(9), F(12), F(8)>>

ScenarioIaf == R(2, 100)

ScenarioMaxaf == R(2, 10)

\* The variables a call does not use hold these values throughout.
PsarInIdle ==
    /\ high = <<>>
    /\ low = <<>>
    /\ iaf = F(0)
    /\ maxaf = F(0)

PsarLocIdle ==
    /\ bull = TRUE
    /\ af = F(0)
    /\ hp = F(0)
    /\ lp = F(0)
    /\ reverse = FALSE
    /\ psar = <<>>
    /\ psarBull = <<>>
    /\ psarBear = <<>>
    /\ proj = <<>>
    /\ bullAt = <<>>
    /\ reverseAt = <<>>

IndInIdle ==
    /\ column = <<>>
    /\ ma = <<>>
    /\ period = 1
    /\ periodUpDown = 1
    /\ periodRoc = 1
    /\ adjust = FALSE
    /\ stdMultiplier = F(0)

CrsiLocIdle ==
    /\ streak = F(0)
    /\ updown = <<>>

WmaLocIdle ==
    /\ weights = [arr |-> <<>>, len |-> 0]
    /\ wma = <<>>

FrameInIdle ==
    /\ index = <<>>
    /\ freq = 1
    /\ open = <<>>
    /\ volume = <<>>
    /\ interval = 1

MemLocIdle ==
    /\ heap = <<>>
    /\ regs = <<>>

ProcsIdle == procs = <<>>

RestIdle ==
    /\ FrameInIdle
    /\ MemLocIdle
    /\ ProcsIdle

InitCall(f) ==
    /\ op = f
    /\ pc = "call"
    /\ ret = <<>>
    /\ i = 0

InitPSAR ==
    /\ MemLocIdle
    /\ ProcsIdle
    /\ freq = 1
    /\ open = <<>>
    /\ volume = <<>>
    /\ interval = 1
    /\ InitCall("PSAR")
    /\ PsarLocIdle
    /\ IndInIdle
    /\ CrsiLocIdle
    /\ WmaLocIdle
    /\ \/ \E n \in 0..MaxLen : \E st \in Steps :
          \E hd \in [(1..n) \cap (1..2) -> Bars] : \E tl \in [3..n -> TailBars] :
          LET bs == [k \in 1..n |-> IF k <= 2 THEN hd[k] ELSE tl[k]] IN
            /\ high = [k \in 1..n |-> F(bs[k][1])]
            /\ low = [k \in 1..n |-> F(bs[k][2])]
            /\ close = [k \in 1..n |-> F(bs[k][3])]
            /\ iaf = st[1]
            /\ maxaf = st[2]
       \/ /\ high = ScenarioHigh
          /\ low = ScenarioLow
          /\ close = ScenarioClose
          /\ iaf = ScenarioIaf
          /\ maxaf = ScenarioMaxaf
       \/ \E st \in Steps :
          /\ high = FallingHigh
          /\ low = FallingLow
          /\ close = FallingLow
          /\ iaf = st[1]
          /\ maxaf = st[2]
    /\ index = [k \in 1..Len(close) |-> k - 1]

NextPSAR == PSARCall \/ PSARBar \/ PSARReturn

SpecPSAR == InitPSAR /\ [][NextPSAR]_vars

-----------------------------------------------------------------------------
(* The series operations the indicators call (package series), after the   *)
(* contract in section 6 of the specification.  A series is the sequence   *)
(* of its values; the operands of an elementwise operation have the same   *)
(* length.                                                                 *)

\* A series as the slice of its values, each computed once.
Values(s) == SubSeq(s, 1, Len(s))

Diff(s, lag) ==
    Values([k \in 1..Len(s) |->
               IF k <= lag THEN NaN ELSE FSub(s[k], s[k - lag])])

Shift(s, lag) ==
    Values([k \in 1..Len(s) |-> IF k <= lag THEN NaN ELSE s[k - lag]])

Fillna(s, v) ==
    Values([k \in 1..Len(s) |-> IF IsNaN(s[k]) THEN v ELSE s[k]])

Abs(s) == Values([k \in 1..Len(s) |-> <<AbsInt(s[k][1]), s[k][2]>>])

Add(a, b) == Values([k \in 1..Len(a) |-> FAdd(a[k], b[k])])

Sub(a, b) == Values([k \in 1..Len(a) |-> FSub(a[k], b[k])])

Div(a, b) == Values([k \in 1..Len(a) |-> FDiv(a[k], b[k])])

MulScalar(a, c) == Values([k \in 1..Len(a) |-> FMul(a[k], c)])

DivScalar(a, c) == Values([k \in 1..Len(a) |-> FDiv(a[k], c)])

\* The decay parameter of an exponential window.
AlphaOf(atype, param) ==
    IF atype = "Alpha" THEN param ELSE FDiv(F(2), FAdd(param, F(1)))

\* The observations (non-NaN values) among the first k values.
Observed(s, k) == {s[j] : j \in 1..k} \ {NaN}

\* The pairs <<N[j], D[j]>>, j = 1..k, of the recursion normalised by the
\* cumulative weight: N[j] is the sum of (1-a)^(j-m) * s[m] and D[j] the sum
\* of (1-a)^(j-m) over the observations m <= j.
RECURSIVE EwmPairs(_, _, _)
EwmPairs(s, a, k) ==
    IF k = 0 THEN <<>>
    ELSE LET before == EwmPairs(s, a, k - 1)
             last   == IF k = 1 THEN <<F(0), F(0)>> ELSE before[k - 1]
             num    == FMul(FSub(F(1), a), last[1])
             den    == FMul(FSub(F(1), a), last[2])
         IN  Append(before,
                    IF IsNaN(s[k]) THEN <<num, den>>
                    ELSE <<FAdd(num, s[k]), FAdd(den, F(1))>>)

\* The normalised recursion: N[k] / D[k].  The weighted mean of equal
\* observations is that observation.
EwmNorm(s, a) ==
    LET all == Observed(s, Len(s))
    IN  IF Cardinality(all) <= 1
        THEN [k \in 1..Len(s) |->
                IF Observed(s, k) = {} THEN NaN ELSE CHOOSE v \in all : TRUE]
        ELSE LET pairs == EwmPairs(s, a, Len(s))
             IN  [k \in 1..Len(s) |-> FDiv(pairs[k][1], pairs[k][2])]

\* The plain recursion y[k] = (1-a) * y[k-1] + a * s[k], started at the first
\* observation.
RECURSIVE EwmPlain(_, _, _)
EwmPlain(s, a, k) ==
    IF k = 0 THEN <<>>
    ELSE LET before == EwmPlain(s, a, k - 1)
             prev   == IF k = 1 THEN NaN ELSE before[k - 1]
         IN  Append(before,
                    IF IsNaN(s[k]) THEN prev
                    ELSE IF IsNaN(prev) \/ prev = s[k] THEN s[k]
                    ELSE FAdd(FMul(FSub(F(1), a), prev), FMul(a, s[k])))

\* EWM(atype, param, adjust, bias).Mean()
EWMMean(s, atype, param, adj, bias) ==
    LET a == AlphaOf(atype, param)
    IN  IF adj \/ bias THEN EwmNorm(s, a) ELSE EwmPlain(s, a, Len(s))

-----------------------------------------------------------------------------
(* ROC, RSI and CRSI.                                                      *)

ROC(col, per) == MulScalar(Div(Diff(col, per), Shift(col, per)), F(100))

\* The gains: the differences with the negative ones set to 0.
UpMoves(d) == [k \in 1..Len(d) |-> IF FLt(d[k], F(0)) THEN F(0) ELSE d[k]]

\* The losses before Abs: the differences with the positive ones set to 0.
DownMoves(d) == [k \in 1..Len(d) |-> IF FGt(d[k], F(0)) THEN F(0) ELSE d[k]]

\* A loss series that keeps the sign of the falls.
LossInputSigned(down) == down

\* The series whose smoothing is the loss.
LossInput(down) == Abs(down)

\* An index that drops the "100 -".
RsiOfInverted(v) == FDiv(F(100), FAdd(F(1), v))

\* The index of one relative-strength value.
RsiOf(v) == FSub(F(100), FDiv(F(100), FAdd(F(1), v)))

\* The smoothed gains of RSI.
RsiGain(col, per, adj) ==
    EWMMean(UpMoves(Diff(col, 1)), "Alpha", FDiv(F(1), F(per)), adj, TRUE)

\* The smoothed losses of RSI.
RsiLoss(col, per, adj) ==
    EWMMean(LossInput(DownMoves(Diff(col, 1))), "Alpha", FDiv(F(1), F(per)),
            adj, TRUE)

RSI(col, per, adj) ==
    LET gain == RsiGain(col, per, adj)
        loss == RsiLoss(col, per, adj)
        rs   == Fillna(Div(gain, loss), F(0))
    IN  [k \in 1..Len(col) |-> RsiOf(rs[k])]

\* A streak that is not reset when the price does not move.
StreakStepNoReset(st, v) ==
    IF FGt(v, F(0)) THEN (IF FLe(st, F(0)) THEN F(1) ELSE FAdd(st, F(1)))
    ELSE IF FLt(v, F(0)) THEN (IF FLe(F(0), st) THEN F(-1) ELSE FSub(st, F(1)))
    ELSE st

\* The closure CRSI applies to each one-bar difference v: the new streak.
StreakStep(st, v) ==
    IF FGt(v, F(0)) THEN (IF FLe(st, F(0)) THEN F(1) ELSE FAdd(st, F(1)))
    ELSE IF FLt(v, F(0)) THEN (IF FLe(F(0), st) THEN F(-1) ELSE FSub(st, F(1)))
    ELSE F(0)

\* RSI called as a function of its own.
RSICall ==
    /\ op = "RSI"
    /\ pc = "call"
    /\ pc' = "done"
    /\ ret' = RSI(column, period, adjust)
    /\ UNCHANGED <<op, i, psarIn, psarLoc, indIn, rest, crsiLoc, wmaLoc>>

\* CRSI up to the start of the scan: close is cloned and differenced.
CRSICall ==
    /\ op = "CRSI"
    /\ pc = "call"
    /\ pc' = "loop"
    /\ streak' = F(0)
    /\ updown' = Diff(close, 1)
    /\ i' = 0
    /\ UNCHANGED <<op, ret, psarIn, psarLoc, indIn, rest, wmaLoc>>

\* Apply calls the closure on element i, in sequence order.
CRSIScan ==
    /\ op = "CRSI"
    /\ pc = "loop"
    /\ i < Len(updown)
    /\ streak' = StreakStep(streak, At(updown, i))
    /\ updown' = Put(updown, i, streak')
    /\ i' = i + 1
    /\ UNCHANGED <<op, pc, ret, psarIn, psarLoc, indIn, rest, wmaLoc>>

\* The three components are computed and averaged.
CRSICombine ==
    /\ op = "CRSI"
    /\ pc = "loop"
    /\ ~(i < Len(updown))
    /\ pc' = "done"
    /\ LET rsi       == RSI(close, period, adjust)
           rsiUpDown == RSI(updown, periodUpDown, adjust)
           roc       == Fillna(ROC(close, periodRoc), F(0))
       IN  ret' = DivScalar(Add(Add(rsi, rsiUpDown), roc), F(3))
    /\ UNCHANGED <<op, i, psarIn, psarLoc, indIn, rest, crsiLoc, wmaLoc>>

\* The series of length n over the values lo..hi.
SeriesOver(n, lo, hi) == {[k \in 1..n |-> F(c[k])] : c \in [1..n -> lo..hi]}

InitRSI ==
    /\ RestIdle
    /\ InitCall("RSI")
    /\ PsarInIdle
    /\ close = <<>>
    /\ PsarLocIdle
    /\ CrsiLocIdle
    /\ WmaLocIdle
    /\ ma = <<>>
    /\ periodUpDown = 1
    /\ periodRoc = 1
    /\ stdMultiplier = F(0)
    /\ period \in 1..MaxPeriod
    /\ adjust \in BOOLEAN
    /\ \/ \E n \in 0..MaxLen : column \in SeriesOver(n, 0, MaxVal)
       \/ \E c \in 0..MaxVal : column = [k \in 1..ConstLen |-> F(c)]

NextRSI == RSICall

SpecRSI == InitRSI /\ [][NextRSI]_vars

InitCRSI ==
    /\ RestIdle
    /\ InitCall("CRSI")
    /\ PsarInIdle
    /\ PsarLocIdle
    /\ CrsiLocIdle
    /\ WmaLocIdle
    /\ column = <<>>
    /\ ma = <<>>
    /\ stdMultiplier = F(0)
    /\ period \in 1..MaxPeriod
    /\ periodUpDown = period
    /\ periodRoc = period
    /\ adjust \in BOOLEAN
    /\ \E n \in 0..MaxLen : close \in SeriesOver(n, 1, MaxVal)

NextCRSI == CRSICall \/ CRSIScan \/ CRSICombine

SpecCRSI == InitCRSI /\ [][NextCRSI]_vars

-----------------------------------------------------------------------------
(* PSAR claims.                                                            *)

\* The bars the scan has processed so far (0-based).
ProcessedBars ==
    IF op = "PSAR" /\ pc \in {"loop", "done"} THEN 2..(i - 1) ELSE {}

IsScenario ==
    /\ op = "PSAR"
    /\ high = ScenarioHigh
    /\ low = ScenarioLow
    /\ close = ScenarioClose
    /\ iaf = ScenarioIaf
    /\ maxaf = ScenarioMaxaf

\* C1 as stated: at every bar i >= 2 exactly one of bull[i], bear[i] is
\* nonzero (both are zero only at the seed bars 0 and 1), and no value is
\* emitted on the side opposite to the trend.
C1_ExactlyOneNonzero ==
    /\ \A k \in ProcessedBars :
          /\ (At(psarBull, k) # F(0)) # (At(psarBear, k) # F(0))
          /\ At(bullAt, k) => At(psarBear, k) = F(0)
          /\ ~At(bullAt, k) => At(psarBull, k) = F(0)
    /\ (op = "PSAR" /\ pc \in {"loop", "done"}) =>
          \A k \in 0..1 : k < Len(close) =>
              At(psarBull, k) = F(0) /\ At(psarBear, k) = F(0)

\* C1 amended: at every bar i >= 2 the side of the trend in force after the
\* bar holds psar[i] and the opposite side is zero, so the two sides are never
\* both nonzero and exactly one is nonzero whenever psar[i] # 0; at the seed
\* bars 0 and 1 both sides are zero.
C1_Disjoint ==
    /\ \A k \in ProcessedBars :
          /\ At(bullAt, k) =>
                At(psarBull, k) = At(psar, k) /\ At(psarBear, k) = F(0)
          /\ ~At(bullAt, k) =>
                At(psarBear, k) = At(psar, k) /\ At(psarBull, k) = F(0)
          /\ At(psar, k) # F(0) =>
                (At(psarBull, k) # F(0)) # (At(psarBear, k) # F(0))
    /\ (op = "PSAR" /\ pc \in {"loop", "done"}) =>
          \A k \in 0..1 : k < Len(close) =>
              At(psarBull, k) = F(0) /\ At(psarBear, k) = F(0)

\* A call that returned with a nonzero bull bar and a nonzero bear bar.
C1_Witness ==
    /\ op = "PSAR"
    /\ pc = "done"
    /\ \E k1, k2 \in ProcessedBars :
          /\ At(bullAt, k1) /\ At(ret.bull, k1) # F(0)
          /\ ~At(bullAt, k2) /\ At(ret.bear, k2) # F(0)

\* C2: at every bar i >= 2 that ends in the Bull trend without a reversal at
\* that bar, psar[i] <= low[i-1] and psar[i] <= low[i-2].
C2_BullClamp ==
    \A k \in ProcessedBars :
        (At(bullAt, k) /\ ~At(reverseAt, k)) =>
            /\ FLe(At(psar, k), At(low, k - 1))
            /\ FLe(At(psar, k), At(low, k - 2))

\* A bull bar without reversal whose projection lay above the low two bars
\* back only, and was lowered to it.
C2_Witness ==
    \E k \in ProcessedBars :
        /\ At(bullAt, k)
        /\ ~At(reverseAt, k)
        /\ FLe(At(proj, k), At(low, k - 1))
        /\ FLt(At(low, k - 2), At(proj, k))
        /\ At(psar, k) = At(low, k - 2)

\* C3 as stated: in the scenario the psar value returned at bar 2 is the
\* step-1 projection close[1] + iaf * (high[0] - close[1]).
C3_Bar2IsProjection ==
    (IsScenario /\ pc = "done") =>
        At(ret.psar, 2) =
            FAdd(At(close, 1), FMul(iaf, FSub(At(high, 0), At(close, 1))))

\* C3 amended: in the scenario the step-1 projection of bar 2 is
\* close[1] + 0.02 * (high[0] - close[1]) = 10.98; low[2] = 8 lies below it,
\* so bar 2 reverses to Bear and the psar value returned at bar 2 is the
\* running high, high[0] = 10, emitted on the bear side.
C3_Bar2Reverses ==
    /\ (IsScenario /\ 2 \in ProcessedBars) =>
          /\ At(proj, 2) =
                FAdd(At(close, 1), FMul(R(2, 100), FSub(At(high, 0), At(close, 1))))
          /\ At(proj, 2) = R(1098, 100)
          /\ At(reverseAt, 2)
          /\ ~At(bullAt, 2)
          /\ At(psar, 2) = F(10)
          /\ At(psarBear, 2) = F(10)
          /\ At(psarBull, 2) = F(0)
    /\ (IsScenario /\ pc = "done") => At(ret.psar, 2) = At(high, 0)

C3_Witness == IsScenario /\ pc = "done" /\ Len(ret.psar) = 5

\* C4 as stated: on equal-length series of any length n < 3, n = 0 included,
\* the call completes without failure and returns psar = close with both
\* output sides zero.
C4_TotalOnShort ==
    (op = "PSAR" /\ Len(close) < 3) =>
        /\ pc # "panic"
        /\ pc = "done" =>
              /\ ret.psar = close
              /\ ret.bull = Zeros(Len(close))
              /\ ret.bear = Zeros(Len(close))


\* The bar the scan is about to process, if any.
AtBar == op = "PSAR" /\ pc = "loop" /\ i < Len(close)

\* The step-1 projection of the bar the scan is about to process.
Step1 ==
    LET prev == At(psar, i - 1)
        ep   == IF bull THEN hp ELSE lp
    IN  FAdd(prev, FMul(af, FSub(ep, prev)))

\* C16: at every bar i >= 2 the trend flips exactly when the reversal
\* condition holds on the step-1 projection: Bull becomes Bear iff
\* low[i] < projection, Bear becomes Bull iff high[i] > projection; the flag
\* of the bar tells whether it flipped, and the clamp has no part in the test.
C16_ReversalTest ==
    [][AtBar =>
        /\ At(proj', i) = Step1
        /\ bull => (~bull' <=> FLt(At(low, i), Step1))
        /\ ~bull => (bull' <=> FGt(At(high, i), Step1))
        /\ reverse' <=> (bull' # bull)
        /\ At(reverseAt', i) = reverse'
        /\ At(bullAt', i) = bull']_vars

\* The scan has flipped to Bear at one bar and back to Bull at the next.
C16_Witness ==
    \E k \in ProcessedBars :
        /\ k + 1 \in ProcessedBars
        /\ At(reverseAt, k) /\ ~At(bullAt, k)
        /\ At(reverseAt, k + 1) /\ At(bullAt, k + 1)
        /\ FLt(At(low, k), At(proj, k))
        /\ FGt(At(high, k + 1), At(proj, k + 1))

\* C17: on a Bull-to-Bear reversal at bar i psar[i] is the running high
\* held before the bar, the running low becomes low[i] and af becomes iaf;
\* on a Bear-to-Bull reversal psar[i] is the running low held before the
\* bar, the running high becomes high[i] and af becomes iaf; the bar is not
\* clamped and af is not incremented.
C17_ReversalEffects ==
    [][(AtBar /\ reverse') =>
        /\ af' = iaf
        /\ bull => /\ ~bull'
                   /\ At(psar', i) = hp
                   /\ At(psarBear', i) = hp
                   /\ lp' = At(low, i)
                   /\ hp' = hp
        /\ ~bull => /\ bull'
                    /\ At(psar', i) = lp
                    /\ At(psarBull', i) = lp
                    /\ hp' = At(high, i)
                    /\ lp' = lp]_vars

\* A bar reversed to Bear at a running high below the high of the bar
\* before it, where a bear clamp would have raised the SAR: the SAR emitted
\* is the running high.
C17_Witness ==
    \E k \in ProcessedBars :
        /\ At(reverseAt, k)
        /\ ~At(bullAt, k)
        /\ FLt(At(psar, k), At(high, k - 1))
        /\ At(psar, k) = At(high, 0)

\* C18: on a bar without reversal, when the bar sets a new extreme
\* (high[i] > running high in Bull, low[i] < running low in Bear) the extreme
\* becomes that price and af becomes min(af + iaf, maxaf); when it does not,
\* af and the extremes are left as they were.
C18_Acceleration ==
    [][(AtBar /\ ~reverse') =>
        /\ bull' = bull
        /\ bull =>
              /\ lp' = lp
              /\ IF FGt(At(high, i), hp)
                 THEN hp' = At(high, i) /\ af' = FMin(FAdd(af, iaf), maxaf)
                 ELSE hp' = hp /\ af' = af
        /\ ~bull =>
              /\ hp' = hp
              /\ IF FLt(At(low, i), lp)
                 THEN lp' = At(low, i) /\ af' = FMin(FAdd(af, iaf), maxaf)
                 ELSE lp' = lp /\ af' = af]_vars

\* A bull bar without reversal has set a new high and af, which would have
\* passed the cap, stands at the cap.
C18_Witness ==
    /\ op = "PSAR"
    /\ pc = "loop"
    /\ i - 1 \in ProcessedBars
    /\ bull
    /\ ~reverse
    /\ hp = At(high, i - 1)
    /\ FGt(hp, At(high, 0))
    /\ af = maxaf
    /\ FLt(maxaf, FAdd(iaf, iaf))

\* The bar at which the run in force after bar k began: the last reversal up
\* to k, or bar 0 for the bull run the scan starts in.
RunStart(k) ==
    LET revs == {j \in 2..k : At(reverseAt, j)}
    IN  IF revs = {} THEN 0 ELSE CHOOSE j \in revs : \A m \in revs : m <= j

HighestHigh(S) ==
    At(high, CHOOSE j \in S : \A m \in S : FLe(At(high, m), At(high, j)))

LowestLow(S) ==
    At(low, CHOOSE j \in S : \A m \in S : FLe(At(low, j), At(low, m)))

\* C19 as stated: after every bar i >= 2, in Bull the running high is the
\* highest high over the bars of the current bull run so far, in Bear the
\* running low is the lowest low over the bars of the current bear run.
C19_ExtremeOfRun ==
    ProcessedBars # {} =>
        LET k == i - 1
        IN  IF bull THEN hp = HighestHigh(RunStart(k)..k)
            ELSE lp = LowestLow(RunStart(k)..k)

\* C19 amended: in a run that began with a reversal at bar j the extreme is
\* the highest high (Bull) or the lowest low (Bear) over bars j..i; in the
\* bull run the scan starts in, the running high is the highest of high[0]
\* and the highs of bars 2..i, the high of bar 1 never being read.
C19_ExtremeOfBarsRead ==
    ProcessedBars # {} =>
        LET k == i - 1
            s == RunStart(k)
        IN  IF bull
            THEN hp = HighestHigh(IF s = 0 THEN {0} \cup (2..k) ELSE s..k)
            ELSE lp = LowestLow(s..k)

\* The scan is still in the bull run it started in, and the high of bar 1
\* is above the running high.
C19_Witness ==
    /\ ProcessedBars # {}
    /\ bull
    /\ RunStart(i - 1) = 0
    /\ FGt(At(high, 1), hp)

\* C20: at every bar i >= 2 that ends in the Bear trend without a reversal
\* at that bar, psar[i] >= high[i-1] and psar[i] >= high[i-2].
C20_BearClamp ==
    \A k \in ProcessedBars :
        (~At(bullAt, k) /\ ~At(reverseAt, k)) =>
            /\ FLe(At(high, k - 1), At(psar, k))
            /\ FLe(At(high, k - 2), At(psar, k))

\* A bear bar without reversal whose projection lay below the high two bars
\* back only, and was raised to it.
C20_Witness ==
    \E k \in ProcessedBars :
        /\ ~At(bullAt, k)
        /\ ~At(reverseAt, k)
        /\ FLe(At(high, k - 1), At(proj, k))
        /\ FLt(At(proj, k), At(high, k - 2))
        /\ At(psar, k) = At(high, k - 2)


\* C21: in the series returned, at every bar i >= 2 the trend in force after
\* the bar selects the side: in Bull bull[i] = psar[i] and bear[i] = 0, in
\* Bear bear[i] = psar[i] and bull[i] = 0, so psar[i] = bull[i] + bear[i];
\* the three series have close's length and close's index.
C21_Emission ==
    (op = "PSAR" /\ pc = "done") =>
        /\ \A k \in ProcessedBars :
              /\ At(bullAt, k) =>
                    At(ret.bull, k) = At(ret.psar, k) /\ At(ret.bear, k) = F(0)
              /\ ~At(bullAt, k) =>
                    At(ret.bear, k) = At(ret.psar, k) /\ At(ret.bull, k) = F(0)
              /\ At(ret.psar, k) = FAdd(At(ret.bull, k), At(ret.bear, k))
        /\ Len(ret.psar) = Len(close)
        /\ Len(ret.bull) = Len(close)
        /\ Len(ret.bear) = Len(close)
        /\ ret.index = index

\* A call returned series in which a bear bar with a nonzero SAR is followed
\* by a bull bar with a nonzero SAR.
C21_Witness ==
    /\ op = "PSAR"
    /\ pc = "done"
    /\ \E k \in ProcessedBars :
          /\ k + 1 \in ProcessedBars
          /\ ~At(bullAt, k) /\ At(ret.bear, k) # F(0)
          /\ At(bullAt, k + 1) /\ At(ret.bull, k + 1) # F(0)

\* C26: for 0 < iaf <= maxaf the acceleration factor stays within
\* iaf <= af <= maxaf at every point of the scan, and a bar changes it only
\* by a reset to iaf on a reversal or, on a bar without reversal that sets a
\* new extreme, by the step min(af + iaf, maxaf).
C26_AfBounds ==
    /\ []((/\ op = "PSAR"
           /\ pc \in {"loop", "done"}
           /\ FLt(F(0), iaf)
           /\ FLe(iaf, maxaf)) => (FLe(iaf, af) /\ FLe(af, maxaf)))
    /\ [][(AtBar /\ FLt(F(0), iaf) /\ FLe(iaf, maxaf) /\ af' # af) =>
            \/ reverse' /\ af' = iaf
            \/ /\ ~reverse'
               /\ IF bull THEN FGt(At(high, i), hp) ELSE FLt(At(low, i), lp)
               /\ af' = FMin(FAdd(af, iaf), maxaf)]_vars

\* A bear run has stepped the factor up to a cap that lies strictly between
\* iaf and 2 * iaf.
C26_Witness ==
    /\ op = "PSAR"
    /\ pc = "loop"
    /\ i - 1 \in ProcessedBars
    /\ ~bull
    /\ ~reverse
    /\ FLt(F(0), iaf)
    /\ FLt(iaf, maxaf)
    /\ FLt(maxaf, FAdd(iaf, iaf))
    /\ lp = At(low, i - 1)
    /\ af = maxaf

\* C27: when low <= high on every bar and 0 < iaf <= maxaf, two consecutive
\* bars k >= 2 and k + 1 that both end in Bull without a reversal have
\* psar[k + 1] >= psar[k], and two that both end in Bear without a reversal
\* have psar[k + 1] <= psar[k].
C27_Monotone ==
    (/\ op = "PSAR"
     /\ \A k \in 1..Len(high) : FLe(low[k], high[k])
     /\ FLt(F(0), iaf)
     /\ FLe(iaf, maxaf)) =>
        \A k \in ProcessedBars :
            (/\ k + 1 \in ProcessedBars
             /\ ~At(reverseAt, k)
             /\ ~At(reverseAt, k + 1)
             /\ At(bullAt, k) = At(bullAt, k + 1)) =>
                IF At(bullAt, k)
                THEN FLe(At(psar, k), At(psar, k + 1))
                ELSE FLe(At(psar, k + 1), At(psar, k))

\* Two consecutive bull bars without reversal, the second with a SAR strictly
\* above the first.
C27_Witness ==
    /\ op = "PSAR"
    /\ pc = "done"
    /\ \A k \in 1..Len(high) : FLe(low[k], high[k])
    /\ FLt(F(0), iaf)
    /\ FLe(iaf, maxaf)
    /\ \E k \in ProcessedBars :
          /\ k + 1 \in ProcessedBars
          /\ ~At(reverseAt, k) /\ ~At(reverseAt, k + 1)
          /\ At(bullAt, k) /\ At(bullAt, k + 1)
          /\ FLt(At(psar, k), At(psar, k + 1))

-----------------------------------------------------------------------------
(* RSI and CRSI claims.                                                    *)

IsConstant30 ==
    /\ op = "RSI"
    /\ Len(column) = 30
    /\ \A k \in 1..Len(column) : column[k] = column[1]

\* C6 as stated: for a constant-price series of length 30, RSI is 100 at every
\* bar past the warm-up bar 0.
C6_ConstantIs100 ==
    (IsConstant30 /\ pc = "done") =>
        \A k \in 1..(Len(ret) - 1) : At(ret, k) = F(100)

\* C6 amended: for a constant-price series of length 30, gain and loss are 0
\* (NaN at bar 0), gain/loss is NaN and is filled with 0, and RSI =
\* 100 - 100/(1 + 0) = 0 at every bar.
C6_ConstantIs0 ==
    (IsConstant30 /\ pc = "done") =>
        /\ Len(ret) = 30
        /\ \A k \in 0..(Len(ret) - 1) :
              /\ IsNaN(FDiv(At(RsiGain(column, period, adjust), k),
                            At(RsiLoss(column, period, adjust), k)))
              /\ At(ret, k) = F(0)

C6_Witness == IsConstant30 /\ pc = "done" /\ Len(ret) = 30 /\ period > 1

\* C9: RSI lies in [0, 100] at every bar of every finite input series.
C9_RsiInRange ==
    (op = "RSI" /\ pc = "done") =>
        \A k \in 0..(Len(ret) - 1) :
            FLe(F(0), At(ret, k)) /\ FLe(At(ret, k), F(100))

\* An RSI that returned with a bar whose loss is 0 under a positive gain (an
\* infinite gain/loss), a bar where gain/loss is 0/0 and filled, and a bar
\* strictly between 0 and 100.
C9_Witness ==
    /\ op = "RSI"
    /\ pc = "done"
    /\ LET gain == RsiGain(column, period, adjust)
           loss == RsiLoss(column, period, adjust)
       IN  /\ \E k \in 1..Len(ret) :
                 loss[k] = F(0) /\ FGt(gain[k], F(0)) /\ ret[k] = F(100)
           /\ \E k \in 2..Len(ret) :
                 loss[k] = F(0) /\ gain[k] = F(0) /\ ret[k] = F(0)
           /\ \E k \in 1..Len(ret) : FLt(F(0), ret[k]) /\ FLt(ret[k], F(100))

\* The elements of the streak series the scan has written (0-based).
Scanned == IF op = "CRSI" /\ pc \in {"loop", "done"} THEN 0..(i - 1) ELSE {}

\* The direction of the move into bar k >= 1.
Dir(k) ==
    IF FGt(At(close, k), At(close, k - 1)) THEN 1
    ELSE IF FLt(At(close, k), At(close, k - 1)) THEN -1
    ELSE 0

\* The number of consecutive moves in the direction of bar k's move that end
\* at bar k.
RunLength(k) ==
    Cardinality({j \in 1..k : \A m \in j..k : Dir(m) = Dir(k)})

\* C7: the first bar's streak is 0; at each bar k >= 1 the streak is the
\* previous streak + 1 on a rise (1 if the previous streak was not positive),
\* the previous streak - 1 on a fall (-1 if it was not negative) and 0 on no
\* change; so its sign is the direction of the last move and its magnitude
\* the number of consecutive moves in that direction ending at the bar.
C7_Streak ==
    \A k \in Scanned :
        IF k = 0 THEN At(updown, 0) = F(0)
        ELSE LET prev == At(updown, k - 1)
                 cur  == At(updown, k)
             IN  /\ Dir(k) = 1 =>
                       cur = (IF FGt(prev, F(0)) THEN FAdd(prev, F(1)) ELSE F(1))
                 /\ Dir(k) = -1 =>
                       cur = (IF FLt(prev, F(0)) THEN FSub(prev, F(1)) ELSE F(-1))
                 /\ Dir(k) = 0 => cur = F(0)
                 /\ cur = F(Dir(k) * RunLength(k))

\* A scan that counted up to +2 and then fell to -1.
C7_Witness ==
    /\ op = "CRSI"
    /\ pc = "done"
    /\ \E k \in Scanned : At(updown, k) = F(2)
    /\ \E k \in Scanned : At(updown, k) = F(-1)

\* C8 as stated: CRSI is between 0 and 100 at every bar, for every positive
\* finite close series and every choice of the three periods.
C8_CrsiInRange ==
    (op = "CRSI" /\ pc = "done" /\ \A k \in 1..Len(close) : FGt(close[k], F(0))) =>
        \A k \in 1..Len(ret) : FLe(F(0), ret[k]) /\ FLe(ret[k], F(100))

-----------------------------------------------------------------------------
(* Volatility bands: SMA, BBANDS and PercentB.  The rolling window and its *)
(* reductions belong to the series library and follow its contract: the    *)
(* window of bar k holds the last `period` bars ending at k, fewer at the  *)
(* start of the series.                                                    *)

\* The 1-based positions of the rolling window that ends at position k.
Window(k, per) == (IF k - per + 1 > 1 THEN k - per + 1 ELSE 1)..k

RECURSIVE SumOver(_, _, _)
\* The sum of f[j] for j in lo..hi.
SumOver(f, lo, hi) ==
    IF lo > hi THEN F(0) ELSE FAdd(SumOver(f, lo, hi - 1), f[hi])

\* Rolling(per).Mean().
RollingMean(s, per) ==
    Values([k \in 1..Len(s) |->
               LET w == Window(k, per)
               IN  FDiv(SumOver(s, k - Cardinality(w) + 1, k),
                        F(Cardinality(w)))])

RECURSIVE ISqrt(_, _)
\* The integer square root of q >= 1 by Newton's iteration from x >= the root.
ISqrt(q, x) ==
    LET y == (x + q \div x) \div 2
    IN  IF y >= x THEN x ELSE ISqrt(q, y)

\* The square root: exact on the squares of rationals, truncated to a
\* multiple of 1/SqrtScale elsewhere.
Sqrt(x) ==
    IF IsNaN(x) \/ FLt(x, F(0)) THEN NaN
    ELSE IF IsInf(x) THEN PInf
    ELSE LET q == x[1] * x[2] * SqrtScale * SqrtScale
         IN  IF q = 0 THEN F(0) ELSE Norm(ISqrt(q, q), x[2] * SqrtScale)

\* Rolling(per).Std(mean, ddof): the deviation of the window of bar k about
\* mean[k], with ddof degrees of freedom taken off the divisor.
RollingStd(s, mean, per, ddof) ==
    Values([k \in 1..Len(s) |->
               LET w  == Window(k, per)
                   sq == Values([j \in 1..Len(s) |->
                                    FMul(FSub(s[j], mean[k]),
                                         FSub(s[j], mean[k]))])
               IN  Sqrt(FDiv(SumOver(sq, k - Cardinality(w) + 1, k),
                             F(Cardinality(w) - ddof)))])

\* A moving average that is empty until a full window is available.
SMAFullWindows(col, per) ==
    [k \in 1..Len(col) |-> IF k < per THEN NaN ELSE RollingMean(col, per)[k]]

SMA(col, per) == RollingMean(col, per)

\* Bands whose deviation keeps its NaN values.
BBANDSNoFill(col, mean, per, mult) ==
    LET std == MulScalar(RollingStd(col, mean, per, 1), mult)
    IN  <<Add(mean, std), Sub(mean, std)>>

\* BBANDS returns the pair (upper, lower).
BBANDS(col, mean, per, mult) ==
    LET std == MulScalar(Fillna(RollingStd(col, mean, per, 1), F(0)), mult)
    IN  <<Add(mean, std), Sub(mean, std)>>

\* PercentB written with the bands in the order BBANDS returns them.
PercentBUnswapped(col, mean, per, mult) ==
    LET bands   == BBANDS(col, mean, per, mult)
        bbUpper == bands[1]
        bbLower == bands[2]
    IN  Div(Sub(col, bbLower), Sub(bbUpper, bbLower))

\* PercentB: the first result of BBANDS is bound to bbLower and the second
\* to bbUpper.
PercentB(col, mean, per, mult) ==
    LET bands   == BBANDS(col, mean, per, mult)
        bbLower == bands[1]
        bbUpper == bands[2]
    IN  Div(Sub(col, bbLower), Sub(bbUpper, bbLower))

SMACall ==
    /\ op = "SMA"
    /\ pc = "call"
    /\ pc' = "done"
    /\ ret' = SMA(column, period)
    /\ UNCHANGED <<op, i, psarIn, psarLoc, indIn, rest, crsiLoc, wmaLoc>>

BBANDSCall ==
    /\ op = "BBANDS"
    /\ pc = "call"
    /\ pc' = "done"
    /\ ret' = BBANDS(column, ma, period, stdMultiplier)
    /\ UNCHANGED <<op, i, psarIn, psarLoc, indIn, rest, crsiLoc, wmaLoc>>

PercentBCall ==
    /\ op = "PercentB"
    /\ pc = "call"
    /\ pc' = "done"
    /\ ret' = PercentB(column, ma, period, stdMultiplier)
    /\ UNCHANGED <<op, i, psarIn, psarLoc, indIn, rest, crsiLoc, wmaLoc>>

\* The SMA scenario: close = [1, 2, 3, 4, 5].
SmaScenarioClose == <<F(1), F(2), F(3), F(4), F(5)>>

\* The band multipliers of the calls, a negative one among them.
Multipliers == {F(m) : m \in -1..MaxMult}

\* The averages supplied with a series: its SMA, the series lagged by one
\* bar, and the flat averages.
Averages(col, per) ==
    {SMA(col, per)}
        \cup {[k \in 1..Len(col) |-> IF k = 1 THEN col[1] ELSE col[k - 1]]}
        \cup {[k \in 1..Len(col) |-> F(c)] : c \in 0..MaVal}

InitBands ==
    /\ RestIdle
    /\ op \in {"SMA", "BBANDS", "PercentB"}
    /\ pc = "call"
    /\ ret = <<>>
    /\ i = 0
    /\ PsarInIdle
    /\ close = <<>>
    /\ PsarLocIdle
    /\ CrsiLocIdle
    /\ WmaLocIdle
    /\ periodUpDown = 1
    /\ periodRoc = 1
    /\ adjust = FALSE
    /\ period \in 1..MaxPeriod
    /\ \/ \E n \in 0..BandLen :
            /\ column \in SeriesOver(n, 0, BandVal)
            /\ IF op = "SMA"
                  THEN ma = <<>> /\ stdMultiplier = F(0)
                  ELSE /\ ma \in Averages(column, period)
                       /\ stdMultiplier \in Multipliers
       \/ /\ op = "SMA"
          /\ column = SmaScenarioClose
          /\ ma = <<>>
          /\ stdMultiplier = F(0)

NextBands == SMACall \/ BBANDSCall \/ PercentBCall

SpecBands == InitBands /\ [][NextBands]_vars

-----------------------------------------------------------------------------
(* PercentB claims.                                                        *)

\* Bar k (1-based) lies on bands that are finite and not flat.
OnBands(upper, lower, k) ==
    IsFinite(upper[k]) /\ IsFinite(lower[k]) /\ upper[k] # lower[k]

\* C5 as stated: PercentB equals (series - lower)/(upper - lower) for the
\* bands (upper, lower) BBANDS returns for the same arguments; at a bar where
\* the bands are not flat it is 1 when the series equals the upper band and 0
\* when it equals the lower band.
C5_PercentB ==
    (op = "PercentB" /\ pc = "done") =>
        LET bands == BBANDS(column, ma, period, stdMultiplier)
            Upper == bands[1]
            Lower == bands[2]
        IN  \A k \in 1..Len(ret) :
                /\ ret[k] = FDiv(FSub(column[k], Lower[k]),
                                 FSub(Upper[k], Lower[k]))
                /\ OnBands(Upper, Lower, k) =>
                      /\ column[k] = Upper[k] => ret[k] = F(1)
                      /\ column[k] = Lower[k] => ret[k] = F(0)

\* What the call returns instead: (series - upper)/(lower - upper), which is
\* 0 at the upper band and 1 at the lower band.
C5_Mirrored ==
    (op = "PercentB" /\ pc = "done") =>
        LET bands == BBANDS(column, ma, period, stdMultiplier)
            Upper == bands[1]
            Lower == bands[2]
        IN  \A k \in 1..Len(ret) :
                /\ ret[k] = FDiv(FSub(column[k], Upper[k]),
                                 FSub(Lower[k], Upper[k]))
                /\ OnBands(Upper, Lower, k) =>
                      /\ column[k] = Upper[k] => ret[k] = F(0)
                      /\ column[k] = Lower[k] => ret[k] = F(1)

\* A PercentB call that returned with a bar on the upper band and a bar on
\* the lower band of bands that are not flat.
C5_Witness ==
    /\ op = "PercentB"
    /\ pc = "done"
    /\ LET bands == BBANDS(column, ma, period, stdMultiplier)
           Upper == bands[1]
           Lower == bands[2]
       IN  /\ \E k \in 1..Len(ret) :
                 OnBands(Upper, Lower, k) /\ column[k] = Upper[k]
           /\ \E k \in 1..Len(ret) :
                 OnBands(Upper, Lower, k) /\ column[k] = Lower[k]

\* C11: at every bar, upper >= ma >= lower whenever stdMultiplier >= 0 and
\* the rolling standard deviation is finite; a NaN deviation is replaced by 0
\* and gives upper = ma = lower.
C11_BandsOrdered ==
    (op = "BBANDS" /\ pc = "done") =>
        LET sd == RollingStd(column, ma, period, 1)
        IN  \A k \in 1..Len(column) :
                (FLe(F(0), stdMultiplier) /\ ~IsInf(sd[k])) =>
                    /\ FLe(ret[2][k], ma[k])
                    /\ FLe(ma[k], ret[1][k])
                    /\ IsNaN(sd[k]) => (ret[1][k] = ma[k] /\ ret[2][k] = ma[k])

\* A BBANDS call with a positive multiplier that returned with a bar of NaN
\* deviation and a bar whose bands lie strictly around the average.
C11_Witness ==
    /\ op = "BBANDS"
    /\ pc = "done"
    /\ FGt(stdMultiplier, F(0))
    /\ LET sd == RollingStd(column, ma, period, 1)
       IN  /\ \E k \in 1..Len(column) : IsNaN(sd[k]) /\ ret[1][k] = ma[k]
           /\ \E k \in 1..Len(column) :
                 /\ IsFinite(sd[k])
                 /\ FLt(ret[2][k], ma[k])
                 /\ FLt(ma[k], ret[1][k])

-----------------------------------------------------------------------------
(* SMA claims.                                                             *)

\* The number of bars available to the window of bar k (0-based).
Available(k) == IF k + 1 < period THEN k + 1 ELSE period

-----------------------------------------------------------------------------
(* WMA.  Rolling(period).Apply(fn) belongs to the series library: it calls  *)
(* fn once per bar, first bar to last, on the window that ends at the bar.  *)
(* The closure fn keeps the captured slice `weights` between its calls.     *)
(* `weights` is a Go slice: an array of `period` values and a length, and a *)
(* reslice may take any length up to the capacity of the array.             *)

denominator(per) == FDiv(F(per * (per + 1)), F(2))

\* The values of the window that ends at bar k (0-based), oldest first.
Data(col, k, per) ==
    LET size == IF k + 1 < per THEN k + 1 ELSE per
    IN  [j \in 1..size |-> col[k + 1 - size + j]]

\* weights after the closure's reslice for a window of `size` bars.
Resliced(w, size, per) == IF size < per THEN [w EXCEPT !.len = size] ELSE w

\* A weighted sum divided by the divisor of the window's own length.
WeightedRenormalised(tmp, w, per) ==
    FDiv(SumOver([j \in 1..Len(tmp) |-> FMul(tmp[j], w.arr[j])], 1, Len(tmp)),
         denominator(Len(tmp)))

\* series.Sum(tmp.Mul(weights)) / denominator for slices of one length.
Weighted(tmp, w, per) ==
    FDiv(SumOver([j \in 1..Len(tmp) |-> FMul(tmp[j], w.arr[j])], 1, Len(tmp)),
         denominator(per))

\* The same for a weights slice shorter than tmp, when the multiplication
\* stops at the shorter operand and leaves the rest of tmp as it is.
WeightedPrefix(tmp, w, per) ==
    FDiv(SumOver([j \in 1..Len(tmp) |->
                     IF j <= w.len THEN FMul(tmp[j], w.arr[j]) ELSE tmp[j]],
                 1, Len(tmp)),
         denominator(per))

WMACall ==
    /\ op = "WMA"
    /\ pc = "call"
    /\ weights' = [arr |-> [j \in 1..period |-> F(j)], len |-> period]
    /\ wma' = <<>>
    /\ i' = 0
    /\ pc' = "loop"
    /\ UNCHANGED <<op, ret, psarIn, psarLoc, indIn, rest, crsiLoc>>

\* One call of the closure, on a window as long as the resliced weights.
WMAWindow ==
    /\ op = "WMA"
    /\ pc = "loop"
    /\ i < Len(column)
    /\ LET tmp == Data(column, i, period)
           w   == Resliced(weights, Len(tmp), period)
       IN  /\ Len(tmp) = w.len
           /\ weights' = w
           /\ wma' = Append(wma, Weighted(tmp, w, period))
    /\ i' = i + 1
    /\ UNCHANGED <<op, pc, ret, psarIn, psarLoc, indIn, rest, crsiLoc>>

\* One call of the closure on a window longer than the weights, when the
\* library rejects operands of different lengths.
WMAMismatchPanic ==
    /\ op = "WMA"
    /\ pc = "loop"
    /\ i < Len(column)
    /\ LET tmp == Data(column, i, period)
       IN  Len(tmp) # Resliced(weights, Len(tmp), period).len
    /\ pc' = "panic"
    /\ UNCHANGED <<op, ret, i, psarIn, psarLoc, indIn, rest, crsiLoc, wmaLoc>>

\* One call of the closure on a window longer than the weights, when the
\* library multiplies up to the shorter operand.
WMAMismatchPrefix ==
    /\ op = "WMA"
    /\ pc = "loop"
    /\ i < Len(column)
    /\ LET tmp == Data(column, i, period)
           w   == Resliced(weights, Len(tmp), period)
       IN  /\ Len(tmp) # w.len
           /\ wma' = Append(wma, WeightedPrefix(tmp, w, period))
    /\ i' = i + 1
    /\ UNCHANGED <<op, pc, ret, psarIn, psarLoc, indIn, rest, crsiLoc, weights>>

WMAReturn ==
    /\ op = "WMA"
    /\ pc = "loop"
    /\ i = Len(column)
    /\ ret' = wma
    /\ pc' = "done"
    /\ UNCHANGED <<op, i, psarIn, psarLoc, indIn, rest, crsiLoc, wmaLoc>>

InitWMA ==
    /\ RestIdle
    /\ InitCall("WMA")
    /\ PsarInIdle
    /\ close = <<>>
    /\ PsarLocIdle
    /\ CrsiLocIdle
    /\ WmaLocIdle
    /\ ma = <<>>
    /\ periodUpDown = 1
    /\ periodRoc = 1
    /\ stdMultiplier = F(0)
    /\ adjust = FALSE
    /\ period \in 1..WmaPeriod
    /\ \E n \in 0..MaxLen : column \in SeriesOver(n, 0, MaxVal)

NextWMA ==
    WMACall \/ WMAWindow \/ WMAMismatchPanic \/ WMAMismatchPrefix \/ WMAReturn

SpecWMA == InitWMA /\ [][NextWMA]_vars

-----------------------------------------------------------------------------
(* WMA claims.                                                             *)

\* The linearly weighted mean of the full window that ends at bar k
\* (1-based): the j-th oldest bar weighted j, over period * (period + 1) / 2.
FullWindowWMA(k) ==
    FDiv(SumOver([j \in 1..period |-> FMul(F(j), column[k - period + j])],
                 1, period),
         F((period * (period + 1)) \div 2))

\* C10: the call completes, and at every bar whose trailing window holds a
\* full `period` bars, also after shorter windows at the start of the series,
\* WMA is the sum over j = 1..period of j times the j-th oldest bar of the
\* window, divided by period * (period + 1) / 2.
C10_FullWindows ==
    op = "WMA" =>
        /\ pc # "panic"
        /\ \A k \in period..Len(wma) : wma[k] = FullWindowWMA(k)


\* C22: at a bar of the start of the series whose window holds s < period
\* bars, WMA is the sum over k = 1..s of k times the k-th oldest bar of the
\* window, divided by period * (period + 1) / 2: the weights are cut to
\* their first s entries and the divisor is that of the full period.
C22_PartialWindows ==
    op = "WMA" =>
        \A s \in 1..Len(wma) :
            s < period =>
                wma[s] = FDiv(SumOver([k \in 1..s |-> FMul(F(k), column[k])],
                                      1, s),
                              F((period * (period + 1)) \div 2))

\* The windows of one and of two bars of a call with period 3 have been
\* weighted, on bars that are not zero.
C22_Witness ==
    /\ op = "WMA"
    /\ period = 3
    /\ Len(wma) >= 2
    /\ column[1] # F(0)
    /\ column[2] # F(0)
    /\ wma[2] = FDiv(FAdd(column[1], FMul(F(2), column[2])), F(6))

-----------------------------------------------------------------------------
(* OHLCV.Resample.  The resampler belongs to the series library and        *)
(* follows its contract: a timestamp t falls into the bucket               *)
(* floor((t - origin) / interval), every bucket that holds a timestamp     *)
(* gives one output bar, stamped with the start of the bucket, and the     *)
(* bars of a bucket are reduced by the aggregator named.                   *)

OriginEpoch == 0

Bucket(t, w) == (t - OriginEpoch) \div w

RECURSIVE BucketSeq(_, _, _)
\* The buckets of the first k timestamps of idx, in order, each once.
BucketSeq(idx, w, k) ==
    IF k = 0 THEN <<>>
    ELSE LET prev == BucketSeq(idx, w, k - 1)
             b    == Bucket(idx[k], w)
         IN  IF prev # <<>> /\ prev[Len(prev)] = b THEN prev
             ELSE Append(prev, b)

\* The positions of the bars that fall into bucket b.
Members(idx, w, b) == {k \in 1..Len(idx) : Bucket(idx[k], w) = b}

First(vals, ks) == vals[CHOOSE k \in ks : \A j \in ks : k <= j]

Last(vals, ks) == vals[CHOOSE k \in ks : \A j \in ks : k >= j]

Max(vals, ks) == vals[CHOOSE k \in ks : \A j \in ks : FLe(vals[j], vals[k])]

Min(vals, ks) == vals[CHOOSE k \in ks : \A j \in ks : FLe(vals[k], vals[j])]

Sum(vals, ks) ==
    SumOver([k \in 1..Len(vals) |-> IF k \in ks THEN vals[k] ELSE F(0)],
            1, Len(vals))

\* The bars ks of a bucket reduced by the aggregator named.
Reduce(agg, vals, ks) ==
    IF agg = "First" THEN First(vals, ks)
    ELSE IF agg = "Last" THEN Last(vals, ks)
    ELSE IF agg = "Max" THEN Max(vals, ks)
    ELSE IF agg = "Min" THEN Min(vals, ks)
    ELSE Sum(vals, ks)

\* Resample(interval, origin) of one series, reduced by the aggregator agg.
Resampled(idx, vals, w, agg) ==
    LET bs == BucketSeq(idx, w, Len(idx))
    IN  [j \in 1..Len(bs) |-> Reduce(agg, vals, Members(idx, w, bs[j]))]

\* The timestamps of the resampled series.
ResampledIndex(idx, w) ==
    LET bs == BucketSeq(idx, w, Len(idx))
    IN  [j \in 1..Len(bs) |-> OriginEpoch + bs[j] * w]

\* A frame whose High column is resampled from Low.
ResampleHighFromLow(idx, o, h, l, c, v, w) ==
    [index  |-> ResampledIndex(idx, w),
     open   |-> Resampled(idx, o, w, "First"),
     high   |-> Resampled(idx, l, w, "Max"),
     low    |-> Resampled(idx, l, w, "Min"),
     close  |-> Resampled(idx, c, w, "Last"),
     volume |-> Resampled(idx, v, w, "Sum")]

\* A frame whose Close column is reduced by First.
ResampleCloseFirst(idx, o, h, l, c, v, w) ==
    [index  |-> ResampledIndex(idx, w),
     open   |-> Resampled(idx, o, w, "First"),
     high   |-> Resampled(idx, h, w, "Max"),
     low    |-> Resampled(idx, l, w, "Min"),
     close  |-> Resampled(idx, c, w, "First"),
     volume |-> Resampled(idx, v, w, "Sum")]

\* A frame whose Low column is reduced by Last.
ResampleLowLast(idx, o, h, l, c, v, w) ==
    [index  |-> ResampledIndex(idx, w),
     open   |-> Resampled(idx, o, w, "First"),
     high   |-> Resampled(idx, h, w, "Max"),
     low    |-> Resampled(idx, l, w, "Last"),
     close  |-> Resampled(idx, c, w, "Last"),
     volume |-> Resampled(idx, v, w, "Sum")]

\* OHLCV.Resample: Open -> first, High -> max, Low -> min, Close -> last,
\* Volume -> sum, on a clone of the frame.
Resample(idx, o, h, l, c, v, w) ==
    [index  |-> ResampledIndex(idx, w),
     open   |-> Resampled(idx, o, w, "First"),
     high   |-> Resampled(idx, h, w, "Max"),
     low    |-> Resampled(idx, l, w, "Min"),
     close  |-> Resampled(idx, c, w, "Last"),
     volume |-> Resampled(idx, v, w, "Sum")]

ResampleCall ==
    /\ op = "Resample"
    /\ pc = "call"
    /\ pc' = "done"
    /\ ret' = Resample(index, open, high, low, close, volume, interval)
    /\ UNCHANGED <<op, i, psarIn, psarLoc, indIn, rest, crsiLoc, wmaLoc>>

\* The bars <<open, high, low, close>> of the frames: an OHLCV bar that opens
\* at its low or at its high.
FrameBars ==
    UNION {{<<b[2], b[1], b[2], b[3]>>, <<b[1], b[1], b[2], b[3]>>} : b \in Bars}

\* A frame of n bars at spacing freq that starts at the timestamp s * freq,
\* resampled to its own spacing or to twice its spacing.
InitFrame ==
    /\ InitCall("Resample")
    /\ iaf = F(0)
    /\ maxaf = F(0)
    /\ PsarLocIdle
    /\ IndInIdle
    /\ CrsiLocIdle
    /\ WmaLocIdle
    /\ MemLocIdle
    /\ ProcsIdle
    /\ freq \in 1..MaxFreq
    /\ interval \in {freq, 2 * freq}
    /\ \E n \in 0..FrameLen : \E s \in 0..1 : \E bars \in [1..n -> FrameBars] :
          /\ index = [k \in 1..n |-> (s + k - 1) * freq]
          /\ open = [k \in 1..n |-> F(bars[k][1])]
          /\ high = [k \in 1..n |-> F(bars[k][2])]
          /\ low = [k \in 1..n |-> F(bars[k][3])]
          /\ close = [k \in 1..n |-> F(bars[k][4])]
          /\ volume = [k \in 1..n |-> F(k)]

NextFrame == ResampleCall

SpecFrame == InitFrame /\ [][NextFrame]_vars

-----------------------------------------------------------------------------
(* Resample claims.                                                        *)

BarsOf(j) ==
    {k \in 1..Len(index) :
        (index[k] - OriginEpoch) \div interval
            = (ret.index[j] - OriginEpoch) \div interval}

\* C24: every output bar stands for one bucket floor((t - origin) / interval)
\* that holds input bars, and every input bar falls into the bucket of one
\* output bar; Open is the open of the first bar of the bucket, High the
\* highest high, Low the lowest low, Close the close of the last bar and
\* Volume the sum of the volumes; the five columns are as long as the index
\* of buckets, which increases.
C24_Aggregates ==
    (op = "Resample" /\ pc = "done") =>
        /\ \A j \in 1..Len(ret.index) :
              LET ks == BarsOf(j)
                  lo == CHOOSE k \in ks : \A m \in ks : k <= m
                  hi == CHOOSE k \in ks : \A m \in ks : m <= k
              IN  /\ ks # {}
                  /\ ret.index[j] =
                        OriginEpoch + interval * ((index[lo] - OriginEpoch)
                                                      \div interval)
                  /\ ret.open[j] = open[lo]
                  /\ ret.close[j] = close[hi]
                  /\ \A k \in ks : FLe(high[k], ret.high[j])
                  /\ \E k \in ks : high[k] = ret.high[j]
                  /\ \A k \in ks : FLe(ret.low[j], low[k])
                  /\ \E k \in ks : low[k] = ret.low[j]
                  /\ ret.volume[j] = SumOver(volume, lo, hi)
        /\ \A k \in 1..Len(index) : \E j \in 1..Len(ret.index) : k \in BarsOf(j)
        /\ \A j \in 2..Len(ret.index) : ret.index[j - 1] < ret.index[j]
        /\ \A col \in {ret.open, ret.high, ret.low, ret.close, ret.volume} :
              Len(col) = Len(ret.index)

\* Two bars with different highs, lows, opens and closes fell into one bucket
\* of twice their spacing.
C24_Witness ==
    /\ op = "Resample"
    /\ pc = "done"
    /\ interval = 2 * freq
    /\ Len(index) = 2
    /\ Len(ret.index) = 1
    /\ high[1] # high[2]
    /\ low[1] # low[2]
    /\ open[1] # open[2]
    /\ close[1] # close[2]
    /\ ret.volume[1] = F(3)

\* A bar whose open and close lie between its low and its high.
Consistent(o, h, l, c) ==
    /\ FLe(l, o) /\ FLe(o, h)
    /\ FLe(l, c) /\ FLe(c, h)

\* C28: when every input bar has low <= open <= high and
\* low <= close <= high, so has every bar of the resampled frame.
C28_Consistency ==
    (/\ op = "Resample"
     /\ pc = "done"
     /\ \A k \in 1..Len(index) :
            Consistent(open[k], high[k], low[k], close[k])) =>
        \A j \in 1..Len(ret.index) :
            Consistent(ret.open[j], ret.high[j], ret.low[j], ret.close[j])

\* Two consistent bars fell into one bucket; the output bar takes its low
\* from the first and its high from the second, and opens above that low.
C28_Witness ==
    /\ op = "Resample"
    /\ pc = "done"
    /\ Len(index) = 2
    /\ Len(ret.index) = 1
    /\ \A k \in 1..2 : Consistent(open[k], high[k], low[k], close[k])
    /\ FLt(low[1], low[2])
    /\ FLt(high[1], high[2])
    /\ ret.low[1] = low[1]
    /\ ret.high[1] = high[2]
    /\ FLt(ret.low[1], ret.close[1])

-----------------------------------------------------------------------------
(* Who writes to which buffer.  A call is followed statement by statement *)
(* through the series it creates and the series it writes to.  A series   *)
(* method either allocates its result, or returns a view of its receiver,  *)
(* or works in place on its receiver; the bodies below are the source's    *)
(* statements in the source's order, with the calls they make unfolded.    *)

\* dst := recv.m(args...)
I(dst, recv, m, args) == [dst |-> dst, recv |-> recv, m |-> m, args |-> args]

\* Methods whose result is a newly allocated series.
FreshOps ==
    {"Clone", "Diff", "Shift", "Rolling.Mean", "Rolling.Min", "Rolling.Max",
     "Rolling.Std", "Rolling.Apply", "EWM.Mean", "Resample.First",
     "Resample.Max", "Resample.Min", "Resample.Last", "Resample.Sum",
     "make", "append"}

\* Methods whose result shares the buffer of the receiver without writing.
AliasOps == {"Slice", "Values", "MakeData", "Window"}

\* Methods, and Go element stores, that write to the buffer of the receiver.
InPlaceOps ==
    {"Add", "Sub", "Mul", "Div", "AddScalar", "SubScalar", "MulScalar",
     "DivScalar", "Apply", "Fillna", "Abs", "Log", "Cumsum", "Append",
     "store"}

SMABody == <<I("sma", "column", "Rolling.Mean", <<>>)>>

WMABody(arg, res) ==
    <<I("weights", "", "make", <<>>),
      I("weights", "weights", "store", <<>>),
      I("tmp", "", "make", <<>>),
      I("data", arg, "Window", <<>>),
      I("weights", "weights", "Slice", <<>>),
      I("tmp", "tmp", "Slice", <<>>),
      I("tmp", "tmp", "Append", <<"data">>),
      I("tmp", "tmp", "Mul", <<"weights">>),
      I(res, arg, "Rolling.Apply", <<>>)>>

HMABody ==
    <<I("columnf", "column", "Clone", <<>>)>>
    \o WMABody("columnf", "wmaf")
    \o <<I("columns", "column", "Clone", <<>>)>>
    \o WMABody("columns", "wmas")
    \o <<I("deltawma", "wmaf", "MulScalar", <<>>),
         I("deltawma", "deltawma", "Sub", <<"wmas">>)>>
    \o WMABody("deltawma", "hma")

ROCBody(arg, res) ==
    <<I("diff", arg, "Diff", <<>>),
      I("shift", arg, "Shift", <<>>),
      I("diff", "diff", "Div", <<"shift">>),
      I(res, "diff", "MulScalar", <<>>)>>

KSTBody ==
    ROCBody("column", "roc") \o <<I("roc1", "roc", "Rolling.Mean", <<>>)>>
    \o ROCBody("column", "roc") \o <<I("roc2", "roc", "Rolling.Mean", <<>>)>>
    \o ROCBody("column", "roc") \o <<I("roc3", "roc", "Rolling.Mean", <<>>)>>
    \o ROCBody("column", "roc") \o <<I("roc4", "roc", "Rolling.Mean", <<>>)>>
    \o <<I("roc2", "roc2", "MulScalar", <<>>),
         I("k", "roc1", "Add", <<"roc2">>),
         I("roc3", "roc3", "MulScalar", <<>>),
         I("k", "k", "Add", <<"roc3">>),
         I("roc4", "roc4", "MulScalar", <<>>),
         I("k", "k", "Add", <<"roc4">>),
         I("signal", "k", "Rolling.Mean", <<>>)>>

FISHBody ==
    <<I("med", "high", "Clone", <<>>),
      I("med", "med", "Add", <<"low">>),
      I("med", "med", "MulScalar", <<>>),
      I("ndaylow", "med", "Rolling.Min", <<>>),
      I("ndayhigh", "med", "Rolling.Max", <<>>),
      I("raw", "med", "Sub", <<"ndaylow">>),
      I("ndayhigh", "ndayhigh", "Sub", <<"ndaylow">>),
      I("raw", "raw", "Div", <<"ndayhigh">>),
      I("raw", "raw", "MulScalar", <<>>),
      I("raw", "raw", "SubScalar", <<>>),
      I("smooth", "raw", "EWM.Mean", <<>>),
      I("smooth", "smooth", "Fillna", <<>>),
      I("a", "smooth", "Clone", <<>>),
      I("a", "a", "AddScalar", <<>>),
      I("b", "smooth", "MulScalar", <<>>),
      I("b", "b", "AddScalar", <<>>),
      I("log", "a", "Div", <<"b">>),
      I("log", "log", "Log", <<>>),
      I("fish", "log", "EWM.Mean", <<>>)>>

MACDBody ==
    <<I("emaFast", "column", "EWM.Mean", <<>>),
      I("emaSlow", "column", "EWM.Mean", <<>>),
      I("macd", "emaFast", "Sub", <<"emaSlow">>),
      I("macdSignal", "macd", "EWM.Mean", <<>>)>>

BBANDSBody(resUpper, resLower) ==
    <<I("std", "column", "Rolling.Std", <<"ma">>),
      I("std", "std", "Fillna", <<>>),
      I("std", "std", "MulScalar", <<>>),
      I(resUpper, "ma", "Clone", <<>>),
      I(resUpper, resUpper, "Add", <<"std">>),
      I(resLower, "ma", "Clone", <<>>),
      I(resLower, resLower, "Sub", <<"std">>)>>

PercentBBody ==
    BBANDSBody("bbLower", "bbUpper")
    \o <<I("percentB", "column", "Clone", <<>>),
         I("percentB", "percentB", "Sub", <<"bbLower">>),
         I("bbUpper", "bbUpper", "Sub", <<"bbLower">>),
         I("percentB", "percentB", "Div", <<"bbUpper">>)>>

RSIBody(arg, res) ==
    <<I("column", arg, "Clone", <<>>),
      I("up", "column", "Diff", <<>>),
      I("down", "up", "Clone", <<>>),
      I("upValues", "up", "Values", <<>>),
      I("upValues", "upValues", "store", <<>>),
      I("downValues", "down", "Values", <<>>),
      I("downValues", "downValues", "store", <<>>),
      I("gain", "up", "EWM.Mean", <<>>),
      I("down", "down", "Abs", <<>>),
      I("loss", "down", "EWM.Mean", <<>>),
      I("rs", "gain", "Div", <<"loss">>),
      I("rs", "rs", "Fillna", <<>>),
      I(res, "rs", "Apply", <<>>)>>

CRSIBody ==
    <<I("close", "close", "Clone", <<>>),
      I("updown", "close", "Diff", <<>>),
      I("updown", "updown", "Apply", <<>>)>>
    \o RSIBody("close", "rsi")
    \o RSIBody("updown", "rsiUpDown")
    \o ROCBody("close", "roc")
    \o <<I("roc", "roc", "Fillna", <<>>),
         I("crsi", "rsi", "Add", <<"rsiUpDown">>),
         I("crsi", "crsi", "Add", <<"roc">>),
         I("crsi", "crsi", "DivScalar", <<>>)>>

VZOBody ==
    <<I("v", "price", "Clone", <<>>),
      I("v", "v", "Diff", <<>>),
      I("v", "v", "Apply", <<>>),
      I("v", "v", "Mul", <<"volume">>),
      I("dvma", "v", "EWM.Mean", <<>>),
      I("vma", "volume", "Clone", <<>>),
      I("vma", "vma", "EWM.Mean", <<>>),
      I("vzo", "dvma", "MulScalar", <<>>),
      I("vzo", "vzo", "Div", <<"vma">>)>>

\* STOCH without its first statement, close = close.Clone().
STOCHBodyNoClone ==
    <<I("close", "close", "Slice", <<>>),
      I("highestHigh", "high", "Rolling.Max", <<>>),
      I("lowestLow", "low", "Rolling.Min", <<>>),
      I("stoch", "close", "Sub", <<"lowestLow">>),
      I("highestHigh", "highestHigh", "Sub", <<"lowestLow">>),
      I("stoch", "stoch", "Div", <<"highestHigh">>)>>

STOCHBody ==
    <<I("close", "close", "Clone", <<>>),
      I("highestHigh", "high", "Rolling.Max", <<>>),
      I("lowestLow", "low", "Rolling.Min", <<>>),
      I("stoch", "close", "Sub", <<"lowestLow">>),
      I("highestHigh", "highestHigh", "Sub", <<"lowestLow">>),
      I("stoch", "stoch", "Div", <<"highestHigh">>)>>

StochRSIBody ==
    RSIBody("price", "rsi")
    \o <<I("stochRSI", "rsi", "SubScalar", <<>>),
         I("stochRSI", "stochRSI", "DivScalar", <<>>),
         I("stochRSI", "stochRSI", "Rolling.Mean", <<>>)>>

ADLBody ==
    <<I("subCloseLow", "close", "Clone", <<>>),
      I("subCloseLow", "subCloseLow", "Sub", <<"low">>),
      I("subHighClose", "high", "Clone", <<>>),
      I("subHighClose", "subHighClose", "Sub", <<"close">>),
      I("subHighLow", "high", "Clone", <<>>),
      I("subHighLow", "subHighLow", "Sub", <<"low">>),
      I("mfv", "subCloseLow", "Sub", <<"subHighClose">>),
      I("mfv", "mfv", "Div", <<"subHighLow">>),
      I("adl", "mfv", "Cumsum", <<>>)>>

CHAIKINBody ==
    ADLBody
    \o <<I("short", "adl", "EWM.Mean", <<>>),
         I("long", "adl", "EWM.Mean", <<>>),
         I("chaikin", "short", "Sub", <<"long">>)>>

PSARBody ==
    <<I("highValues", "high", "Values", <<>>),
      I("lowValues", "low", "Values", <<>>),
      I("psar", "close", "append", <<>>),
      I("psarBull", "", "make", <<>>),
      I("psarBear", "", "make", <<>>),
      I("psar", "psar", "store", <<>>),
      I("psarBull", "psarBull", "store", <<>>),
      I("psarBear", "psarBear", "store", <<>>),
      I("psarSeries", "psar", "MakeData", <<>>),
      I("bullSeries", "psarBull", "MakeData", <<>>),
      I("bearSeries", "psarBear", "MakeData", <<>>)>>

ResampleBody ==
    <<I("Open", "Open", "Clone", <<>>),
      I("High", "High", "Clone", <<>>),
      I("Low", "Low", "Clone", <<>>),
      I("Close", "Close", "Clone", <<>>),
      I("Volume", "Volume", "Clone", <<>>),
      I("Open", "Open", "Resample.First", <<>>),
      I("High", "High", "Resample.Max", <<>>),
      I("Low", "Low", "Resample.Min", <<>>),
      I("Close", "Close", "Resample.Last", <<>>),
      I("Volume", "Volume", "Resample.Sum", <<>>)>>

\* The functions followed: parameters, statements, results.
Functions ==
    [SMA      |-> [params |-> <<"column">>, body |-> SMABody,
                   results |-> <<"sma">>],
     WMA      |-> [params |-> <<"column">>, body |-> WMABody("column", "wma"),
                   results |-> <<"wma">>],
     HMA      |-> [params |-> <<"column">>, body |-> HMABody,
                   results |-> <<"hma">>],
     ROC      |-> [params |-> <<"column">>, body |-> ROCBody("column", "roc"),
                   results |-> <<"roc">>],
     KST      |-> [params |-> <<"column">>, body |-> KSTBody,
                   results |-> <<"k", "signal">>],
     FISH     |-> [params |-> <<"low", "high">>, body |-> FISHBody,
                   results |-> <<"fish">>],
     MACD     |-> [params |-> <<"column">>, body |-> MACDBody,
                   results |-> <<"macd", "macdSignal">>],
     BBANDS   |-> [params |-> <<"column", "ma">>,
                   body |-> BBANDSBody("upper", "lower"),
                   results |-> <<"upper", "lower">>],
     PercentB |-> [params |-> <<"column", "ma">>, body |-> PercentBBody,
                   results |-> <<"percentB">>],
     RSI      |-> [params |-> <<"column">>, body |-> RSIBody("column", "rsi"),
                   results |-> <<"rsi">>],
     CRSI     |-> [params |-> <<"close">>, body |-> CRSIBody,
                   results |-> <<"crsi">>],
     VZO      |-> [params |-> <<"price", "volume">>, body |-> VZOBody,
                   results |-> <<"vzo">>],
     STOCH    |-> [params |-> <<"high", "low", "close">>, body |-> STOCHBody,
                   results |-> <<"stoch">>],
     StochRSI |-> [params |-> <<"price">>, body |-> StochRSIBody,
                   results |-> <<"stochRSI">>],
     ADL      |-> [params |-> <<"high", "low", "close">>, body |-> ADLBody,
                   results |-> <<"adl">>],
     CHAIKIN  |-> [params |-> <<"high", "low", "close">>, body |-> CHAIKINBody,
                   results |-> <<"chaikin">>],
     PSAR     |-> [params |-> <<"high", "low", "close">>, body |-> PSARBody,
                   results |-> <<"psarSeries", "bullSeries", "bearSeries">>],
     Resample |-> [params |-> <<"Open", "High", "Low", "Close", "Volume">>,
                   body |-> ResampleBody,
                   results |-> <<"Open", "High", "Low", "Close", "Volume">>]]

Elems(s) == {s[k] : k \in DOMAIN s}

\* Every variable a followed function names.
Registers ==
    UNION {Elems(Functions[f].params)
           \cup {Functions[f].body[k].dst : k \in DOMAIN Functions[f].body}
           : f \in DOMAIN Functions}

\* The statement the call is at.
Statement == Functions[op].body[i + 1]

InBody ==
    /\ op \in DOMAIN Functions
    /\ pc = "call"
    /\ i < Len(Functions[op].body)

MemFresh ==
    /\ InBody
    /\ Statement.m \in FreshOps
    /\ heap' = Append(heap, [owner |-> "callee", written |-> FALSE])
    /\ regs' = [regs EXCEPT ![Statement.dst] = Len(heap) + 1]
    /\ i' = i + 1
    /\ UNCHANGED <<op, pc, ret, psarIn, psarLoc, indIn, crsiLoc, wmaLoc>>
    /\ UNCHANGED <<frameIn, procs>>

MemAlias ==
    /\ InBody
    /\ Statement.m \in AliasOps
    /\ regs' = [regs EXCEPT ![Statement.dst] = regs[Statement.recv]]
    /\ i' = i + 1
    /\ UNCHANGED <<op, pc, ret, psarIn, psarLoc, indIn, crsiLoc, wmaLoc>>
    /\ UNCHANGED <<frameIn, heap, procs>>

MemInPlace ==
    /\ InBody
    /\ Statement.m \in InPlaceOps
    /\ heap' = [heap EXCEPT ![regs[Statement.recv]].written = TRUE]
    /\ regs' = [regs EXCEPT ![Statement.dst] = regs[Statement.recv]]
    /\ i' = i + 1
    /\ UNCHANGED <<op, pc, ret, psarIn, psarLoc, indIn, crsiLoc, wmaLoc>>
    /\ UNCHANGED <<frameIn, procs>>

MemReturn ==
    /\ op \in DOMAIN Functions
    /\ pc = "call"
    /\ i = Len(Functions[op].body)
    /\ pc' = "done"
    /\ ret' = [r \in DOMAIN Functions[op].results |->
                  regs[Functions[op].results[r]]]
    /\ UNCHANGED <<op, i, psarIn, psarLoc, indIn, crsiLoc, wmaLoc, rest>>

\* The caller passes one series per parameter, and may pass the same series
\* for several parameters.
InitMem ==
    /\ \E f \in DOMAIN Functions : InitCall(f)
    /\ high = <<>>
    /\ low = <<>>
    /\ close = <<>>
    /\ iaf = F(0)
    /\ maxaf = F(0)
    /\ PsarLocIdle
    /\ IndInIdle
    /\ CrsiLocIdle
    /\ WmaLocIdle
    /\ FrameInIdle
    /\ ProcsIdle
    /\ LET params == Functions[op].params
       IN  /\ heap = [k \in DOMAIN params |->
                         [owner |-> "caller", written |-> FALSE]]
           /\ \E bind \in [DOMAIN params -> DOMAIN params] :
                 regs = [r \in Registers |->
                           IF \E k \in DOMAIN params : params[k] = r
                           THEN bind[CHOOSE k \in DOMAIN params : params[k] = r]
                           ELSE 0]

NextMem == MemFresh \/ MemAlias \/ MemInPlace \/ MemReturn

SpecMem == InitMem /\ [][NextMem]_vars

-----------------------------------------------------------------------------
(* Claims on the inputs of a call.                                         *)

\* C14: a call never writes to a series its caller passed in, and every
\* series it returns was allocated by the call.
C14_InputsIntact ==
    op \in DOMAIN Functions =>
        /\ \A o \in DOMAIN heap :
              heap[o].owner = "caller" => ~heap[o].written
        /\ pc = "done" =>
              \A r \in DOMAIN ret : heap[ret[r]].owner = "callee"

\* STOCH has returned, having been passed one series as high, low and close
\* and having written to a series it allocated.
C14_Witness ==
    /\ op = "STOCH"
    /\ pc = "done"
    /\ regs["high"] = regs["low"]
    /\ \E o \in DOMAIN heap : heap[o].owner = "callee" /\ heap[o].written
    /\ \A o \in DOMAIN heap : heap[o].owner = "caller" => ~heap[o].written

-----------------------------------------------------------------------------
(* Two calls at once.  The state a call carries from one step to the next  *)
(* is in variables declared inside the function (CRSI's streak, WMA's      *)
(* weights, PSAR's bull, af, hp and lp), so every call has its own; the    *)
(* buffers it writes (updown, tmp and wma, psar and the two sides) are     *)
(* allocated by the call.  Two goroutines take their steps in any order.   *)

\* The cell that holds the locals of call p.
CellShared(p) == 1

Cell(p) == p

NoLocals ==
    [streak |-> F(0), weights |-> [arr |-> <<>>, len |-> 0],
     bull |-> TRUE, af |-> F(0), hp |-> F(0), lp |-> F(0)]

\* The statements of a call before its loop.
Enter(c, l) ==
    IF c.op = "CRSI"
    THEN [call |-> [c EXCEPT !.pc = "loop", !.i = 0,
                             !.out = Diff(c.in.close, 1)],
          loc  |-> [l EXCEPT !.streak = F(0)]]
    ELSE IF c.op = "WMA"
    THEN [call |-> [c EXCEPT !.pc = "loop", !.i = 0, !.out = <<>>],
          loc  |-> [l EXCEPT !.weights =
                       [arr |-> [j \in 1..c.in.period |-> F(j)],
                        len |-> c.in.period]]]
    ELSE [call |-> [c EXCEPT !.pc = "loop", !.i = 2,
                             !.out = [psar     |-> c.in.close,
                                      psarBull |-> Zeros(Len(c.in.close)),
                                      psarBear |-> Zeros(Len(c.in.close))]],
          loc  |-> [l EXCEPT !.bull = TRUE, !.af = c.in.iaf,
                             !.hp = At(c.in.high, 0),
                             !.lp = At(c.in.low, 0)]]

\* The number of iterations of the loop of a call.
Bound(c) ==
    IF c.op = "CRSI" THEN Len(c.in.close)
    ELSE IF c.op = "WMA" THEN Len(c.in.column)
    ELSE Len(c.in.close)

\* One element of CRSI's Apply.
ScanStep(c, l) ==
    LET st == StreakStep(l.streak, At(c.out, c.i))
    IN  [call |-> [c EXCEPT !.i = c.i + 1, !.out = Put(c.out, c.i, st)],
         loc  |-> [l EXCEPT !.streak = st]]

\* One window of WMA's closure; mul is what the library does with operands
\* of different lengths.
WindowStep(c, l, mul) ==
    LET tmp == Data(c.in.column, c.i, c.in.period)
        w   == Resliced(l.weights, Len(tmp), c.in.period)
    IN  IF Len(tmp) = w.len
        THEN [call |-> [c EXCEPT !.i = c.i + 1,
                          !.out = Append(c.out, Weighted(tmp, w, c.in.period))],
              loc  |-> [l EXCEPT !.weights = w]]
        ELSE IF mul = "panic"
        THEN [call |-> [c EXCEPT !.pc = "panic"], loc |-> l]
        ELSE [call |-> [c EXCEPT !.i = c.i + 1,
                          !.out = Append(c.out,
                                     WeightedPrefix(tmp, w, c.in.period))],
              loc  |-> [l EXCEPT !.weights = w]]

\* One bar of PSAR's loop.
BarStep(c, l) ==
    LET hi   == c.in.high
        lo   == c.in.low
        n    == c.i
        cand == Projected(l.bull, l.af, l.hp, l.lp, At(c.out.psar, n - 1))
        rev  == Reverses(l.bull, At(lo, n), At(hi, n), cand)
        b2   == IF rev THEN ~l.bull ELSE l.bull
        newX == NewExtreme(b2, At(hi, n), At(lo, n), l.hp, l.lp)
        p2   == IF rev THEN ReversalSar(l.bull, l.hp, l.lp)
                ELSE IF b2
                     THEN ClampBull(cand, At(lo, n - 1), At(lo, n - 2))
                     ELSE ClampBear(cand, At(hi, n - 1), At(hi, n - 2))
    IN  [call |-> [c EXCEPT !.i = n + 1,
                     !.out = [psar     |-> Put(c.out.psar, n, p2),
                              psarBull |-> Put(c.out.psarBull, n,
                                               EmitBull(b2, p2)),
                              psarBear |-> Put(c.out.psarBear, n,
                                               EmitBear(b2, p2))]],
         loc  |-> [l EXCEPT
                     !.bull = b2,
                     !.af = IF rev THEN c.in.iaf
                            ELSE IF newX THEN NextAf(l.af, c.in.iaf, c.in.maxaf)
                            ELSE l.af,
                     !.hp = IF rev /\ b2 THEN At(hi, n)
                            ELSE IF ~rev /\ b2 /\ newX THEN At(hi, n) ELSE l.hp,
                     !.lp = IF rev /\ ~b2 THEN At(lo, n)
                            ELSE IF ~rev /\ ~b2 /\ newX THEN At(lo, n)
                            ELSE l.lp]]

\* One iteration of the loop of a call.
Iterate(c, l, mul) ==
    IF c.op = "CRSI" THEN ScanStep(c, l)
    ELSE IF c.op = "WMA" THEN WindowStep(c, l, mul)
    ELSE BarStep(c, l)

\* The next step of a call that has not ended.
Advance(c, l, mul) ==
    IF c.pc = "call" THEN Enter(c, l)
    ELSE IF c.i < Bound(c) THEN Iterate(c, l, mul)
    ELSE [call |-> [c EXCEPT !.pc = "done"], loc |-> l]

Ended(c) == c.pc \in {"done", "panic"}

RECURSIVE RunAlone(_, _, _)
\* The call run from where it is to its end, with nothing else running.
RunAlone(c, l, mul) ==
    IF Ended(c) THEN c
    ELSE LET n == Advance(c, l, mul) IN RunAlone(n.call, n.loc, mul)

\* Goroutine p enters its call.
ProcEnter ==
    /\ op = "go"
    /\ \E p \in DOMAIN procs.calls :
          /\ procs.calls[p].pc = "call"
          /\ LET n == Advance(procs.calls[p], procs.cells[Cell(p)], procs.mul)
             IN  procs' = [procs EXCEPT !.calls[p] = n.call,
                                        !.cells[Cell(p)] = n.loc]
    /\ UNCHANGED <<ctl, psarIn, psarLoc, indIn, crsiLoc, wmaLoc>>
    /\ UNCHANGED <<frameIn, memLoc>>

\* Goroutine p runs one iteration of its loop.
ProcIterate ==
    /\ op = "go"
    /\ \E p \in DOMAIN procs.calls :
          /\ procs.calls[p].pc = "loop"
          /\ procs.calls[p].i < Bound(procs.calls[p])
          /\ LET n == Advance(procs.calls[p], procs.cells[Cell(p)], procs.mul)
             IN  procs' = [procs EXCEPT !.calls[p] = n.call,
                                        !.cells[Cell(p)] = n.loc]
    /\ UNCHANGED <<ctl, psarIn, psarLoc, indIn, crsiLoc, wmaLoc>>
    /\ UNCHANGED <<frameIn, memLoc>>

\* Goroutine p returns.
ProcReturn ==
    /\ op = "go"
    /\ \E p \in DOMAIN procs.calls :
          /\ procs.calls[p].pc = "loop"
          /\ ~(procs.calls[p].i < Bound(procs.calls[p]))
          /\ procs' = [procs EXCEPT !.calls[p].pc = "done"]
    /\ UNCHANGED <<ctl, psarIn, psarLoc, indIn, crsiLoc, wmaLoc>>
    /\ UNCHANGED <<frameIn, memLoc>>

NoInput ==
    [close |-> <<>>, column |-> <<>>, period |-> 1, high |-> <<>>,
     low |-> <<>>, iaf |-> F(0), maxaf |-> F(0)]

\* A call that has not started.
NewCall(f, in) == [op |-> f, pc |-> "call", i |-> 0, in |-> in, out |-> <<>>]

\* The calls a goroutine may make: CRSI on a close series, WMA on a column,
\* PSAR on bars that rise or fall as a whole.
Calls ==
    {NewCall("CRSI", [NoInput EXCEPT !.close = s]) :
        s \in SeriesOver(ConcLen, 1, 2)}
    \cup {NewCall("WMA", [NoInput EXCEPT !.column = s, !.period = 2]) :
        s \in SeriesOver(ConcLen, 1, 2)}
    \cup {NewCall("PSAR", [NoInput EXCEPT
                             !.high = s,
                             !.low = [k \in DOMAIN s |-> FSub(s[k], F(1))],
                             !.close = [k \in DOMAIN s |-> FSub(s[k], F(1))],
                             !.iaf = st[1], !.maxaf = st[2]]) :
        s \in SeriesOver(ConcLen + 1, 1, 2), st \in Steps}

InitProcs ==
    /\ op = "go"
    /\ pc = "call"
    /\ ret = <<>>
    /\ i = 0
    /\ high = <<>>
    /\ low = <<>>
    /\ close = <<>>
    /\ iaf = F(0)
    /\ maxaf = F(0)
    /\ PsarLocIdle
    /\ IndInIdle
    /\ CrsiLocIdle
    /\ WmaLocIdle
    /\ FrameInIdle
    /\ MemLocIdle
    /\ \E c1 \in Calls, c2 \in Calls, mul \in {"panic", "prefix"} :
          procs = [calls |-> <<c1, c2>>, cells |-> <<NoLocals, NoLocals>>,
                   mul |-> mul]

NextProcs == ProcEnter \/ ProcIterate \/ ProcReturn

SpecProcs == InitProcs /\ [][NextProcs]_vars

-----------------------------------------------------------------------------
(* Claims on concurrent calls.                                             *)

\* The call of goroutine p as it was before it started.
Started(p) ==
    NewCall(procs.calls[p].op, procs.calls[p].in)

\* C15: whatever the order in which two concurrent calls take their steps,
\* each ends as it ends when run alone on its input.
C15_Independent ==
    op = "go" =>
        \A p \in DOMAIN procs.calls :
            Ended(procs.calls[p]) =>
                procs.calls[p] = RunAlone(Started(p), NoLocals, procs.mul)

\* Two CRSI scans overlapped: the first has returned, the second is inside
\* its loop past its first element, and their streaks differ.
C15_Witness ==
    /\ op = "go"
    /\ procs.calls[1].op = "CRSI"
    /\ procs.calls[2].op = "CRSI"
    /\ procs.calls[1].pc = "done"
    /\ procs.calls[2].pc = "loop"
    /\ procs.calls[2].i >= 2
    /\ procs.cells[1].streak # procs.cells[2].streak

-----------------------------------------------------------------------------
(* HMA: three calls of WMA.  What the series library does with a rolling   *)
(* window of zero bars (period / 2 for period 1) is not in the source: it  *)
(* either rejects the window or hands the closure empty windows.           *)

\* int(math.Sqrt(DType(period))): the conversion truncates.
FloorSqrt(n) == CHOOSE r \in 0..n : r * r <= n /\ n < (r + 1) * (r + 1)

\* The square root rounded to the nearest integer.
RoundSqrt(n) ==
    CHOOSE r \in 0..(n + 1) :
        (2 * r - 1) * (2 * r - 1) <= 4 * n /\ 4 * n < (2 * r + 1) * (2 * r + 1)

Failed == [ok |-> FALSE, val |-> <<>>]

\* A call of WMA run to its end: whether it returned, and what.  The closure
\* is called on the windows of bars 0, 1, ... in turn; when it is called on
\* the window that ends at bar k, the captured weights have the length of
\* that window if the window is short of the period, and otherwise the
\* length the last shorter window left them with (period - 1 when there was
\* one).
WMAOf(col, per, mul, zero) ==
    LET wlen(k) == IF k + 1 < per THEN k + 1
                   ELSE IF per >= 2 THEN per - 1 ELSE per
        w(k)    == [arr |-> [j \in 1..per |-> F(j)], len |-> wlen(k)]
        fits(k) == Len(Data(col, k, per)) = wlen(k)
    IN  IF per = 0 /\ zero = "panic" THEN Failed
        ELSE IF mul = "panic" /\ \E k \in 0..(Len(col) - 1) : ~fits(k)
        THEN Failed
        ELSE [ok  |-> TRUE,
              val |-> [n \in 1..Len(col) |->
                         IF fits(n - 1)
                         THEN Weighted(Data(col, n - 1, per), w(n - 1), per)
                         ELSE WeightedPrefix(Data(col, n - 1, per), w(n - 1),
                                             per)]]

\* An HMA whose last window is the rounded square root of the period.
HMARounded(col, per, mul, zero) ==
    LET wmaf == WMAOf(col, per \div 2, mul, zero)
        wmas == WMAOf(col, per, mul, zero)
    IN  IF ~wmaf.ok \/ ~wmas.ok THEN Failed
        ELSE WMAOf(Sub(MulScalar(wmaf.val, F(2)), wmas.val),
                   RoundSqrt(per), mul, zero)

HMA(col, per, mul, zero) ==
    LET halfLength == per \div 2
        sqrtLength == FloorSqrt(per)
        wmaf       == WMAOf(col, halfLength, mul, zero)
        wmas       == WMAOf(col, per, mul, zero)
    IN  IF ~wmaf.ok \/ ~wmas.ok THEN Failed
        ELSE LET deltawma == Sub(MulScalar(wmaf.val, F(2)), wmas.val)
             IN  WMAOf(deltawma, sqrtLength, mul, zero)

\* What the library may do with operands of different lengths and with a
\* window of zero bars.
Libraries == {"panic", "prefix"} \X {"panic", "empty"}

HMACall ==
    /\ op = "HMA"
    /\ pc = "call"
    /\ \E lib \in Libraries :
          LET r == HMA(column, period, lib[1], lib[2])
          IN  /\ pc' = IF r.ok THEN "done" ELSE "panic"
              /\ ret' = r.val
    /\ UNCHANGED <<op, i, psarIn, psarLoc, indIn, rest, crsiLoc, wmaLoc>>

InitHMA ==
    /\ RestIdle
    /\ InitCall("HMA")
    /\ PsarInIdle
    /\ close = <<>>
    /\ PsarLocIdle
    /\ CrsiLocIdle
    /\ WmaLocIdle
    /\ ma = <<>>
    /\ periodUpDown = 1
    /\ periodRoc = 1
    /\ stdMultiplier = F(0)
    /\ adjust = FALSE
    /\ period \in 1..WmaPeriod
    /\ \E n \in 0..MaxLen : column \in SeriesOver(n, 0, MaxVal)

NextHMA == HMACall

SpecHMA == InitHMA /\ [][NextHMA]_vars

-----------------------------------------------------------------------------
(* HMA claims.                                                             *)

\* The composition of three WMA calls with a last window of root bars.
Composed(root, lib) ==
    LET f == WMAOf(column, period \div 2, lib[1], lib[2])
        w == WMAOf(column, period, lib[1], lib[2])
    IN  IF ~f.ok \/ ~w.ok THEN Failed
        ELSE WMAOf([k \in 1..Len(column) |->
                       FSub(FMul(F(2), f.val[k]), w.val[k])],
                   root, lib[1], lib[2])

-----------------------------------------------------------------------------
(* VZO: the volume zone oscillator.                                        *)

\* math.Copysign(1, x): 1 with the sign bit of x.  The difference of two
\* equal prices is +0, whose sign bit is clear; the sign bit of the NaN that
\* Diff puts at the first bar is whatever the library wrote, nan.
Copysign1(x, nan) ==
    IF IsNaN(x) THEN F(nan) ELSE IF FLt(x, F(0)) THEN F(-1) ELSE F(1)

Mul(a, b) == Values([k \in 1..Len(a) |-> FMul(a[k], b[k])])

\* price.Clone().Diff(1).Apply(sign).Mul(volume)
SignedVolume(price, vol, nan) ==
    LET d == Diff(price, 1)
    IN  Mul([k \in 1..Len(d) |-> Copysign1(d[k], nan)], vol)

VZO(price, vol, per, adj, nan) ==
    LET v    == SignedVolume(price, vol, nan)
        dvma == EWMMean(v, "AlphaSpan", F(per), adj, FALSE)
        vma  == EWMMean(vol, "AlphaSpan", F(per), adj, FALSE)
    IN  [v |-> v, vzo |-> Div(MulScalar(dvma, F(100)), vma)]

VZOCall ==
    /\ op = "VZO"
    /\ pc = "call"
    /\ pc' = "done"
    /\ \E nan \in {-1, 1} : ret' = VZO(column, volume, period, adjust, nan)
    /\ UNCHANGED <<op, i, psarIn, psarLoc, indIn, rest, crsiLoc, wmaLoc>>

\* price is held in column; the volume of bar k is k.
InitVZO ==
    /\ InitCall("VZO")
    /\ PsarInIdle
    /\ close = <<>>
    /\ PsarLocIdle
    /\ CrsiLocIdle
    /\ WmaLocIdle
    /\ MemLocIdle
    /\ ProcsIdle
    /\ index = <<>>
    /\ freq = 1
    /\ open = <<>>
    /\ interval = 1
    /\ ma = <<>>
    /\ periodUpDown = 1
    /\ periodRoc = 1
    /\ stdMultiplier = F(0)
    /\ adjust \in BOOLEAN
    /\ period \in 1..MaxPeriod
    /\ \E n \in 0..MaxLen :
          /\ column \in SeriesOver(n, 0, MaxPrice)
          /\ volume = [k \in 1..n |-> F(k)]

NextVZO == VZOCall

SpecVZO == InitVZO /\ [][NextVZO]_vars

-----------------------------------------------------------------------------
(* VZO claims.                                                             *)

\* The sign of x: -1, 0 or 1.
Sign3(x) == IF FLt(x, F(0)) THEN F(-1) ELSE IF FGt(x, F(0)) THEN F(1) ELSE F(0)

\* C25: from the second bar on the signed volume of a bar is
\* sign(price[i] - price[i-1]) * volume[i] with sign in {-1, 0, 1}, so a bar
\* whose price is unchanged contributes 0; VZO is 100 times the smoothed
\* signed volume over the smoothed volume, both smoothed with span = period.
C25_SignedVolume ==
    (op = "VZO" /\ pc = "done") =>
        /\ \A k \in 2..Len(column) :
              ret.v[k] = FMul(Sign3(FSub(column[k], column[k - 1])), volume[k])
        /\ \A k \in 1..Len(column) :
              ret.vzo[k] =
                 FDiv(FMul(EWMMean(ret.v, "AlphaSpan", F(period), adjust,
                                   FALSE)[k], F(100)),
                      EWMMean(volume, "AlphaSpan", F(period), adjust, FALSE)[k])

\* A call returned on a series whose second bar repeats the price of the
\* first: the bar counts its whole volume as rising.
C25_Witness ==
    /\ op = "VZO"
    /\ pc = "done"
    /\ Len(column) >= 2
    /\ column[2] = column[1]
    /\ ret.v[2] = volume[2]
    /\ volume[2] # F(0)

-----------------------------------------------------------------------------
(* The OHLCV frame as five columns, each a series with an index of its own *)
(* (series.Data holds its timestamps and its values).  ReadCSV builds the  *)
(* frame; Clone, Slice and Resample each return a new frame, column by     *)
(* column.  ret holds the frame the caller has in hand.                    *)

\* The number of records of the CSV input.
CsvLen == 3

Columns == {"Open", "High", "Low", "Close", "Volume"}

\* series.MakeData: a series of the timestamps and the values given.
MakeData(idx, vals) == [index |-> idx, values |-> vals]

\* Data.Slice(begin, end): the bars begin .. end - 1 of the series, with
\* their timestamps.
SliceData(d, begin, end) ==
    MakeData(SubSeq(d.index, begin + 1, end), SubSeq(d.values, begin + 1, end))

\* Data.Resample(interval, origin) reduced by the aggregator named.
ResampleData(d, w, agg) ==
    MakeData(ResampledIndex(d.index, w), Resampled(d.index, d.values, w, agg))

\* OHLCV.Clone: a copy of every column.
Clone(f) == [c \in Columns |-> MakeData(f[c].index, f[c].values)]

\* A Slice that leaves the Volume column whole.
SliceButVolume(f, begin, end) ==
    [c \in Columns |->
        IF c = "Volume" THEN f[c] ELSE SliceData(f[c], begin, end)]

\* OHLCV.Slice: every column sliced by the same bounds.
Slice(f, begin, end) == [c \in Columns |-> SliceData(f[c], begin, end)]

\* The aggregator OHLCV.Resample gives each column.
Aggregator(c) ==
    CASE c = "Open" -> "First"
      [] c = "High" -> "Max"
      [] c = "Low" -> "Min"
      [] c = "Close" -> "Last"
      [] c = "Volume" -> "Sum"

\* OHLCV.Resample, column by column, on a clone of the frame.
ResampleColumns(f, w) ==
    LET g == Clone(f)
    IN  [c \in Columns |-> ResampleData(g[c], w, Aggregator(c))]

\* OHLCV.Len: the length of the Open column.
LenOf(f) == Len(f["Open"].values)

\* The positions at which a caller holds a frame.
Ready == {"read", "cloned", "sliced", "resampled"}

\* ReadCSV: a record that does not parse ends the call with an error;
\* otherwise the five columns are built over the one slice of timestamps.
ReadCSVCall ==
    /\ op = "OHLCV"
    /\ pc = "call"
    /\ \E bad \in BOOLEAN :
          IF bad /\ Len(index) > 0
          THEN pc' = "error" /\ ret' = <<>>
          ELSE /\ pc' = "read"
               /\ ret' = [c \in Columns |->
                            MakeData(index,
                                     CASE c = "Open" -> open
                                       [] c = "High" -> high
                                       [] c = "Low" -> low
                                       [] c = "Close" -> close
                                       [] c = "Volume" -> volume)]
    /\ UNCHANGED <<op, i, psarIn, psarLoc, indIn, rest, crsiLoc, wmaLoc>>

CloneCall ==
    /\ op = "OHLCV"
    /\ pc \in Ready
    /\ pc' = "cloned"
    /\ ret' = Clone(ret)
    /\ UNCHANGED <<op, i, psarIn, psarLoc, indIn, rest, crsiLoc, wmaLoc>>

\* Slice with bounds outside a column is a slice expression out of range.
SliceCall ==
    /\ op = "OHLCV"
    /\ pc \in Ready
    /\ \E begin \in 0..CsvLen : \E end \in 0..CsvLen :
          IF \A c \in Columns : begin <= end /\ end <= Len(ret[c].values)
          THEN pc' = "sliced" /\ ret' = Slice(ret, begin, end)
          ELSE pc' = "panic" /\ ret' = <<>>
    /\ UNCHANGED <<op, i, psarIn, psarLoc, indIn, rest, crsiLoc, wmaLoc>>

ResampleColumnsCall ==
    /\ op = "OHLCV"
    /\ pc \in Ready
    /\ \E w \in 1..(MaxFreq + 1) :
          /\ pc' = "resampled"
          /\ ret' = ResampleColumns(ret, w)
    /\ UNCHANGED <<op, i, psarIn, psarLoc, indIn, rest, crsiLoc, wmaLoc>>

\* The records of the CSV input: n bars at spacing freq from the timestamp
\* s, as parsed into the slices T, O, H, L, C and V.
InitOHLCV ==
    /\ InitCall("OHLCV")
    /\ iaf = F(0)
    /\ maxaf = F(0)
    /\ PsarLocIdle
    /\ IndInIdle
    /\ CrsiLocIdle
    /\ WmaLocIdle
    /\ MemLocIdle
    /\ ProcsIdle
    /\ interval = 1
    /\ freq \in 1..MaxFreq
    /\ \E n \in 0..CsvLen : \E s \in 0..1 :
          /\ index = [k \in 1..n |-> s + (k - 1) * freq]
          /\ open = [k \in 1..n |-> F(k)]
          /\ high = [k \in 1..n |-> F(k + 1)]
          /\ low = [k \in 1..n |-> F(k - 1)]
          /\ close = [k \in 1..n |-> F(k)]
          /\ volume = [k \in 1..n |-> F(k)]

NextOHLCV == ReadCSVCall \/ CloneCall \/ SliceCall \/ ResampleColumnsCall

SpecOHLCV == InitOHLCV /\ [][NextOHLCV]_vars

-----------------------------------------------------------------------------
(* OHLCV claims.                                                           *)

\* C29: a frame built by ReadCSV, after any sequence of Clone, Slice and
\* Resample, has five columns of one length that carry the same timestamp
\* at every bar, and Len() is that length.
C29_Shape ==
    (op = "OHLCV" /\ pc \in Ready) =>
        \A c \in Columns :
            /\ Len(ret[c].values) = Len(ret[c].index)
            /\ Len(ret[c].values) = LenOf(ret)
            /\ ret[c].index = ret["Close"].index
            /\ \A d \in Columns : Len(ret[d].values) = Len(ret[c].values)

\* A frame that was resampled to buckets that start at none of the
\* timestamps read, and then sliced to fewer bars than were read.
C29_Witness ==
    /\ op = "OHLCV"
    /\ pc = "sliced"
    /\ LenOf(ret) >= 1
    /\ LenOf(ret) < Len(index)
    /\ \A k \in 1..Len(index) : ret["Open"].index[1] # index[k]

=============================================================================
